---- MODULE Spec2Model ----
(***************************************************************************)
(* A model of cams/CHARIS.py: the CHARIS instrument personality.           *)
(*                                                                         *)
(*  - Spec         the facade's start()/stop(), the periodic status task   *)
(*                 and the HeaderTask accept loop with its connections.    *)
(*  - PutSpec      threads calling putstatus() concurrently.               *)
(*  - DispatchSpec dispatchCommand and the instrument commands.            *)
(*  - BuildSpec    fetch_header applied to definition tables and           *)
(*                 status dictionaries.                                    *)
(*                                                                         *)
(* Python values are tagged tuples <<"str", s>>, <<"float", n>>,           *)
(* <<"int", n>>; a float n counts thousandths.                             *)
(***************************************************************************)
EXTENDS Integers, Sequences, FiniteSets, TLC

VARIABLES
    \* ---- facade lifecycle and tasks (Spec)
    ev_quit,        \* the facade's threading.Event, shared with its tasks
    status_task,    \* self.status_task: 0 is None, else a task id
    power_task,     \* self.power_task: 0 is None
    nStarts,        \* number of start() calls so far = ids of launched tasks
    nStops,         \* number of stop() calls so far
    lastOp,         \* the last lifecycle call that returned
    prevOp,         \* the lifecycle call before it
    stopCalls,      \* per IntervalTask handle, how often its stop() ran
    nPowerOffs,     \* number of power_off() calls made
    shutdowns,      \* the ocs.shutdown calls, each with the facade as it then was
    statPc,         \* per IntervalTask, its position
    hdrPc,          \* per HeaderTask, its position
    portOwner,      \* the HeaderTask whose server is bound to port 6666, or 0
    quitEnters,     \* per HeaderTask: accept waits begun with ev_quit set
    quitWaits,      \* per HeaderTask: accept waits ended with ev_quit set
    conn,           \* the current client connection
    connNo,         \* number of connections made so far
    failedAt,       \* connNo of the first request that failed, or 0
    \* ---- status table (Spec, PutSpec)
    count,          \* self.stattbl1.count
    tmp,            \* per thread, the value read by "count += 1"
    putPc,          \* per thread, its position inside putstatus (PutSpec)
    putLeft,        \* per thread, putstatus calls still to make (PutSpec)
    putDone,        \* number of putstatus calls that returned
    \* ---- header definition tables and status dictionaries
    tel_header, statusDictTel, ao_header, statusDictAO,
    hdrFile,        \* the definition file handed to read_header_list (LoadSpec)
    loadRes,        \* "none", or how that read_header_list call ended
    buildIn,        \* the arguments of the last fetch_header call
    buildRes,       \* what the last fetch_header call returned or raised
    rnh,            \* per calling thread, its return_new_header call (RaceSpec)
    heap,           \* the pyfits.Header objects made so far, by identity (FrameSpec)
    built,          \* the calls that built a header, in order (FrameSpec)
    \* ---- command dispatch (DispatchSpec)
    mode,           \* self.mode
    ocsvals,        \* the ocs.setvals calls of the last command, in order
    execLog,        \* the external commands the last command executed
    dispatchIn,     \* the last dispatchCommand call
    dispatchRes,    \* its outcome
    proc,           \* an execCmd call: the parent's position, the child, the pipes (ExecSpec)
    slp             \* a sleep call in progress (SleepSpec)

lifeVars  == <<ev_quit, status_task, power_task, nStarts, nStops, lastOp, prevOp,
              stopCalls, nPowerOffs, shutdowns>>
taskVars  == <<statPc, hdrPc, portOwner, quitEnters, quitWaits>>
connVars  == <<conn, connNo, failedAt>>
putVars   == <<count, tmp, putPc, putLeft, putDone>>
tableVars == <<tel_header, ao_header, hdrFile, loadRes>>
dictVars  == <<statusDictTel, statusDictAO>>
buildVars == <<buildIn, buildRes, rnh, heap, built>>
cmdVars   == <<mode, ocsvals, execLog, dispatchIn, dispatchRes, proc, slp>>

vars == <<lifeVars, taskVars, connVars, putVars, tableVars, dictVars, buildVars, cmdVars>>

-----------------------------------------------------------------------------
(* Bounds *)

MaxStarts == 2      \* start() calls, hence tasks of each kind
MaxStops  == 2      \* stop() calls
MaxConns  == 2      \* client connections
MaxCount  == 2      \* putstatus calls made by the periodic tasks in Spec
NThreads  == 2      \* threads of PutSpec
KCalls    == 3      \* putstatus calls per thread in PutSpec
MaxCmds   == 2      \* dispatchCommand calls in DispatchSpec
MaxLines  == 2      \* lines of a definition file in LoadSpec
MaxPowerOffs == 2   \* power_off() calls in PowerSpec
MaxBuilds == 2      \* header-building calls made (FrameSpec)
PipeCap   == 2      \* lines an OS pipe holds before a write blocks (ExecSpec)
FloatBits == 3      \* a float holds whole seconds exactly below 2^FloatBits (53 in a double)
MaxIters  == 12     \* iterations of the sleep loop followed (SleepSpec)

Tasks   == 1..MaxStarts
Threads == 1..NThreads

-----------------------------------------------------------------------------
(* Python values *)

StrV(s)   == <<"str", s>>
FloatV(n) == <<"float", n>>
IntV(n)   == <<"int", n>>
IsStr(v) == v[1] = "str"

\* The outcome of a call: a returned value or a raised exception.
Return(v)     == [kind |-> "return", val |-> v, key |-> ""]
Raise(exc, k) == [kind |-> exc, val |-> <<>>, key |-> k]
Returned(r)   == r.kind = "return"

\* str.split(":") on the strings the status source supplies.
SplitColon(s) ==
    CASE s = "10:00:00"  -> <<"10", "00", "00">>
      [] s = "-20:30:00" -> <<"-20", "30", "00">>
      [] s = "-0:30:00"  -> <<"-0", "30", "00">>
      [] s = "10:00"     -> <<"10", "00">>
      [] s = "xx:00:00"  -> <<"xx", "00", "00">>
      [] OTHER           -> <<s>>

\* float(token): thousandths, for the tokens that parse.
NumTokens == {"0", "00", "-0", "1", "10", "30", "-20", "4.5", "45.0", "9999",
              "0.0", "0.", "1.5", "1.", "12", "7"}
FloatTok(s) ==
    CASE s = "0"    -> 0
      [] s = "00"   -> 0
      [] s = "-0"   -> 0
      [] s = "1"    -> 1000
      [] s = "10"   -> 10000
      [] s = "30"   -> 30000
      [] s = "-20"  -> -20000
      [] s = "4.5"  -> 4500
      [] s = "45.0" -> 45000
      [] s = "9999" -> 9999000
      [] s = "0.0"  -> 0
      [] s = "0."   -> 0
      [] s = "1.5"  -> 1500
      [] s = "1."   -> 1000
      [] s = "12"   -> 12000
      [] s = "7"    -> 7000

\* float(v) for a Python value v.
PyFloat(v) ==
    IF v[1] \in {"float", "int"} THEN Return(IF v[1] = "int" THEN v[2] * 1000 ELSE v[2])
    ELSE IF v[2] \in NumTokens THEN Return(FloatTok(v[2]))
    ELSE Raise("ValueError", "")

\* token.find("-") == -1
HasMinus(s) == s \in {"-20", "-0"}

-----------------------------------------------------------------------------
(* pyfits.Header: an ordered list of cards <<keyword, value, comment>> *)

EmptyHeader == <<>>

RECURSIVE KeyIndex(_, _, _)
KeyIndex(hdr, key, i) ==
    IF i > Len(hdr) THEN 0
    ELSE IF hdr[i][1] = key THEN i
    ELSE KeyIndex(hdr, key, i + 1)

\* hdr.set(key, value, comment): update the card in place or append one.
HdrSet(hdr, key, value, comment) ==
    LET i == KeyIndex(hdr, key, 1) IN
    IF i = 0 THEN Append(hdr, <<key, value, comment>>)
    ELSE [hdr EXCEPT ![i] = <<key, value, comment>>]

\* hdr['COMMENT'] = text: a commentary card is always appended.
HdrComment(hdr, text) == Append(hdr, <<"COMMENT", StrV(text), "">>)

HdrKeys(hdr) == {hdr[i][1] : i \in 1..Len(hdr)}
HdrValue(hdr, key) == hdr[KeyIndex(hdr, key, 1)][2]

\* hdr.tostring(): one card image per card, then the END card.
tostring(hdr) == [i \in 1..(Len(hdr) + 1) |->
                    IF i <= Len(hdr) THEN <<"card", hdr[i][1], hdr[i][2], hdr[i][3]>>
                    ELSE <<"END">>]

-----------------------------------------------------------------------------
(* Header definition tables: entries <<alias, key, type, default, comment>> *)

TelFull ==
    << <<"FITS.SBR.RA",  "RA",       "string", StrV("10:00"),  "RA of pointing">>,
       <<"NA",           "TELESCOP", "string", StrV("Subaru"), "Telescope name">>,
       <<"FITS.SBR.DEC", "DEC",      "string", StrV("10:00"),  "DEC of pointing">> >>

TelNoDec ==
    << <<"FITS.SBR.RA",  "RA",       "string", StrV("10:00"),  "RA of pointing">>,
       <<"NA",           "TELESCOP", "string", StrV("Subaru"), "Telescope name">> >>

AoFull ==
    << <<"AON.IMR.PAD",  "D_IMRPAD", "float",  FloatV(0),      "IMR position angle">>,
       <<"NA",           "D_AO",     "string", StrV("AO188"),  "AO system">>,
       <<"AON.LOOP",     "D_LOOP",   "string", StrV("OFF"),    "Loop status">> >>

AoNoPad ==
    << <<"AON.LOOP",     "D_LOOP",   "string", StrV("OFF"),    "Loop status">> >>

TelTables == {TelFull, TelNoDec}
AoTables  == {AoFull, AoNoPad}

Aliases == {"FITS.SBR.RA", "FITS.SBR.DEC", "AON.IMR.PAD", "AON.LOOP"}

\* init_stat_dict without the test of line 185.
init_stat_dict_keeps_na(header) ==
    LET keys == {header[i][1] : i \in 1..Len(header)}
        Last(a) == CHOOSE i \in 1..Len(header) :
                       /\ header[i][1] = a
                       /\ \A j \in 1..Len(header) : header[j][1] = a => j <= i
    IN [a \in keys |-> header[Last(a)][4]]

\* Lines 182-187.
init_stat_dict(header) ==
    LET keys == {header[i][1] : i \in 1..Len(header)} \ {"NA"}
        Last(a) == CHOOSE i \in 1..Len(header) :
                       /\ header[i][1] = a
                       /\ \A j \in 1..Len(header) : header[j][1] = a => j <= i
    IN [a \in keys |-> header[Last(a)][4]]

-----------------------------------------------------------------------------
(* fetch_header *)

PyTrue  == "<True>"
PyFalse == "<False>"

MsPerDay  == 86400000
HstShift  == 36000000      \* timedelta(hours=10)

\* strftime('%Y-%m-%d') and strftime('%H:%M:%S.%f')[:-3] of an instant in ms.
DateStr(t) == <<"date", t \div MsPerDay>>
TimeStr(t) ==
    LET d == t % MsPerDay IN
    <<"time", d \div 3600000, (d \div 60000) % 60, (d \div 1000) % 60, d % 1000>>
\* Time(t, scale='utc').mjd: days, kept as the instant's milliseconds.
Mjd(t) == <<"mjd", t>>

\* Lines 384-442: the fixed fields.
fixed_fields(frameid, it, utc_start) ==
    LET utc_end   == utc_start + it
        hst_start == utc_start - HstShift
        hst_end   == hst_start + it
        h1  == HdrSet(EmptyHeader, "DATE-OBS", DateStr(utc_start), "Observation start date (yyyy-mm-dd)")
        h2  == HdrSet(h1,  "UT",      TimeStr(utc_start), "HH:MM:SS.SS typical UTC at exposure")
        h3  == HdrSet(h2,  "UT-STR",  TimeStr(utc_start), "HH:MM:SS.SS UTC at exposure start")
        h4  == HdrSet(h3,  "UT-END",  TimeStr(utc_end),   "HH:MM:SS.SS UTC at exposure end")
        h5  == HdrSet(h4,  "HST",     TimeStr(hst_start), "HH:MM:SS.SS typical HST at exposure")
        h6  == HdrSet(h5,  "HST-STR", TimeStr(hst_start), "HH:MM:SS.SS HST at exposure start")
        h7  == HdrSet(h6,  "HST-END", TimeStr(hst_end),   "HH:MM:SS.SS HST at exposure end")
        h8  == HdrSet(h7,  "MJD",     Mjd(utc_start),     "Modified Julian Day at typical time")
        h9  == HdrSet(h8,  "MJD-STR", Mjd(utc_start),     "Modified Julian Day at exposure start")
        h10 == HdrSet(h9,  "MJD-END", Mjd(utc_end),       "Modified Julian Day at exposure end")
        h11 == HdrSet(h10, "FRAMEID", frameid,            "Image sequential number")
    IN  HdrSet(h11, "EXPTIME", FloatV(it), "Total integration time of the frame (sec)")

\* The table loop with every entry treated as a constant ("NA") one.
RECURSIVE table_loop_defaults(_, _, _, _)
table_loop_defaults(hdr, header, statusDict, i) ==
    IF i > Len(header) THEN Return(hdr)
    ELSE table_loop_defaults(HdrSet(hdr, header[i][2], header[i][4], header[i][5]),
                             header, statusDict, i + 1)

\* Lines 454-458 and 515-519: one card per table entry, in file order; the
\* status dictionary is indexed directly, so an absent alias raises KeyError.
RECURSIVE table_loop(_, _, _, _)
table_loop(hdr, header, statusDict, i) ==
    IF i > Len(header) THEN Return(hdr)
    ELSE IF header[i][1] = "NA"
         THEN table_loop(HdrSet(hdr, header[i][2], header[i][4], header[i][5]),
                         header, statusDict, i + 1)
    ELSE IF header[i][1] \notin DOMAIN statusDict
         THEN Raise("KeyError", header[i][1])
    ELSE table_loop(HdrSet(hdr, header[i][2], statusDict[header[i][1]], header[i][5]),
                    header, statusDict, i + 1)

\* float(param[0]) ... float(param[1]) ... float(param[2]), left to right.
RECURSIVE sexa_check(_, _)
sexa_check(param, i) ==
    IF i > 3 THEN Return(<<>>)
    ELSE IF i > Len(param) THEN Raise("IndexError", "")
    ELSE IF param[i] \notin NumTokens THEN Raise("ValueError", "")
    ELSE sexa_check(param, i + 1)

\* Line 467, in units of 1/3600000 degree.
ra_deg(p) == 15 * (FloatTok(p[1]) * 3600 + FloatTok(p[2]) * 60 + FloatTok(p[3]))

\* dec_deg with the minutes and seconds added whatever the sign.
dec_deg_all_added(p) == FloatTok(p[1]) * 3600 + FloatTok(p[2]) * 60 + FloatTok(p[3])

\* Lines 469-472.
dec_deg(p) ==
    IF ~HasMinus(p[1])
    THEN FloatTok(p[1]) * 3600 + FloatTok(p[2]) * 60 + FloatTok(p[3])
    ELSE FloatTok(p[1]) * 3600 - FloatTok(p[2]) * 60 - FloatTok(p[3])

\* Lines 461-472: the keys are fixed in the code, whatever the tables list.
wcs(statusDictT, statusDictA) ==
    IF "AON.IMR.PAD" \notin DOMAIN statusDictA THEN Raise("KeyError", "AON.IMR.PAD")
    ELSE IF ~Returned(PyFloat(statusDictA["AON.IMR.PAD"])) THEN Raise("ValueError", "")
    ELSE IF "FITS.SBR.RA" \notin DOMAIN statusDictT THEN Raise("KeyError", "FITS.SBR.RA")
    ELSE IF "FITS.SBR.DEC" \notin DOMAIN statusDictT THEN Raise("KeyError", "FITS.SBR.DEC")
    ELSE LET ra  == statusDictT["FITS.SBR.RA"]
             dec == statusDictT["FITS.SBR.DEC"]
         IN  IF ~IsStr(ra) THEN Raise("AttributeError", "")
             ELSE IF ~Returned(sexa_check(SplitColon(ra[2]), 1))
                  THEN sexa_check(SplitColon(ra[2]), 1)
             ELSE IF ~IsStr(dec) THEN Raise("AttributeError", "")
             ELSE IF ~Returned(sexa_check(SplitColon(dec[2]), 1))
                  THEN sexa_check(SplitColon(dec[2]), 1)
             ELSE Return(<<ra_deg(SplitColon(ra[2])), dec_deg(SplitColon(dec[2]))>>)

ao_comments(hdr) ==
    HdrComment(HdrComment(HdrComment(hdr,
        "------------------------------------------------------------------------"),
        "---------------- Parameters for AO188/LGS -- ---------------------------"),
        "------------------------------------------------------------------------")

\* fetch_header with the dictionary lookups guarded: an absent alias is skipped.
fetch_header_skipping(th, dt, ah, da, frameid, itime, target, utc_start, fullHeader) ==
    LET RECURSIVE skip_loop(_, _, _, _)
        skip_loop(hdr, header, statusDict, i) ==
            IF i > Len(header) THEN hdr
            ELSE IF header[i][1] = "NA"
                 THEN skip_loop(HdrSet(hdr, header[i][2], header[i][4], header[i][5]),
                                header, statusDict, i + 1)
            ELSE IF header[i][1] \notin DOMAIN statusDict
                 THEN skip_loop(hdr, header, statusDict, i + 1)
            ELSE skip_loop(HdrSet(hdr, header[i][2], statusDict[header[i][1]], header[i][5]),
                           header, statusDict, i + 1)
        it == PyFloat(itime)
    IN  IF ~Returned(it) THEN it
        ELSE IF fullHeader = PyFalse THEN Return(fixed_fields(frameid, it.val, utc_start))
        ELSE Return(skip_loop(ao_comments(skip_loop(
                 HdrSet(fixed_fields(frameid, it.val, utc_start), "OBJECT", target, "Target description"),
                 th, dt, 1)), ah, da, 1))

\* fetch_header with OBJECT set before the fullHeader test of line 444.
fetch_header_object_first(th, dt, ah, da, frameid, itime, target, utc_start, fullHeader) ==
    LET it == PyFloat(itime) IN
    IF ~Returned(it) THEN it
    ELSE
    LET fixed == HdrSet(fixed_fields(frameid, it.val, utc_start),
                        "OBJECT", target, "Target description") IN
    IF fullHeader = PyFalse THEN Return(fixed)
    ELSE
    LET r1 == table_loop(fixed, th, dt, 1) IN
    IF ~Returned(r1) THEN r1
    ELSE IF ~Returned(wcs(dt, da)) THEN wcs(dt, da)
    ELSE table_loop(ao_comments(r1.val), ah, da, 1)

\* Lines 381-521. th, dt, ah, da are self.tel_header, self.statusDictTel,
\* self.ao_header and self.statusDictAO at the time of the call.
fetch_header(th, dt, ah, da, frameid, itime, target, utc_start, fullHeader) ==
    LET it == PyFloat(itime) IN
    IF ~Returned(it) THEN it
    ELSE
    LET fixed == fixed_fields(frameid, it.val, utc_start) IN
    IF fullHeader = PyFalse THEN Return(fixed)
    ELSE
    LET r1 == table_loop(HdrSet(fixed, "OBJECT", target, "Target description"), th, dt, 1) IN
    IF ~Returned(r1) THEN r1
    ELSE IF ~Returned(wcs(dt, da)) THEN wcs(dt, da)
    ELSE table_loop(ao_comments(r1.val), ah, da, 1)

-----------------------------------------------------------------------------
(* The status source and the request handler *)

\* What the status source may hold when asked: a value for every alias.
Snapshots ==
    { [a \in Aliases |->
          CASE a = "FITS.SBR.RA"  -> StrV("10:00:00")
            [] a = "FITS.SBR.DEC" -> StrV("-20:30:00")
            [] a = "AON.IMR.PAD"  -> FloatV(45000)
            [] a = "AON.LOOP"     -> StrV("ON")],
      [a \in Aliases |->
          CASE a = "FITS.SBR.RA"  -> StrV("xx:00:00")
            [] a = "FITS.SBR.DEC" -> StrV("-0:30:00")
            [] a = "AON.IMR.PAD"  -> StrV("45.0")
            [] a = "AON.LOOP"     -> StrV("OFF")],
      [a \in Aliases |->
          CASE a = "FITS.SBR.RA"  -> StrV("10:00:00")
            [] a = "FITS.SBR.DEC" -> StrV("-0:30:00")
            [] a = "AON.IMR.PAD"  -> StrV("45.0")
            [] a = "AON.LOOP"     -> StrV("OFF")],
      [a \in Aliases |->
          CASE a = "FITS.SBR.RA"  -> StrV("10:00:00")
            [] a = "FITS.SBR.DEC" -> StrV("10:00:00")
            [] a = "AON.IMR.PAD"  -> FloatV(0)
            [] a = "AON.LOOP"     -> StrV("ON")] }

\* ocs.requestOCSstatus(statusDict): the dictionary is refreshed in place with
\* the source's values for the keys it holds.
requestOCSstatus(statusDict, src) == [a \in DOMAIN statusDict |-> src[a]]

\* datetime.utcnow(), in ms: 09:59:59.500 on day 1, 23:59:58.000 on day 2.
Nows == {MsPerDay + 35999500, 2 * MsPerDay + 86398000}

Header(cards) == <<"Header", cards>>
PyNone        == <<"None">>
PyList(x)     == <<"list", x>>

\* Lines 365-379, after the two refreshes (lines 368-372), which the calling
\* action applies: dt and da are the refreshed dictionaries.
return_new_header(th, dt, ah, da, cmdargs, now) ==
    IF Len(cmdargs) < 3 \/ Len(cmdargs) > 4 THEN Raise("TypeError", "")
    ELSE IF ~Returned(PyFloat(StrV(cmdargs[3]))) THEN Raise("ValueError", "")
    ELSE LET r == fetch_header(th, dt, ah, da, StrV(cmdargs[1]),
                               FloatV(PyFloat(StrV(cmdargs[3])).val), StrV("planetX"), now,
                               IF Len(cmdargs) = 4 THEN cmdargs[4] ELSE PyTrue)
         IN  IF Returned(r) THEN Return(Header(r.val)) ELSE r

\* Lines 821-829: ocs.getFrames(num, type) gives a list of frame ids.
reqframes(cmdargs) ==
    IF Len(cmdargs) > 2 THEN Raise("TypeError", "")
    ELSE Return(PyList(cmdargs))

\* Does the request reach return_new_header's refresh calls?
Refreshes(req) == Len(req) \in 4..5 /\ req[1] = "hdr"

\* Lines 267-276. req is cmdStr.split().
localCmd(th, dt, ah, da, req, now) ==
    IF Len(req) = 0 THEN Raise("IndexError", "")
    ELSE IF req[1] = "hdr" THEN return_new_header(th, dt, ah, da, Tail(req), now)
    ELSE IF req[1] = "seqno" THEN reqframes(Tail(req))
    ELSE Return(PyNone)

\* The request lines clients send, split on whitespace.
Requests ==
    { <<>>, <<"garbage">>, <<"seqno", "1", "A">>,
      <<"hdr", "9999", "1", "4.5">>, <<"hdr", "9999", "1", "abc">>,
      <<"hdr", "9999", "1", "4.5", "False">> }

-----------------------------------------------------------------------------
(* Initial values *)

NoConn  == [state |-> "none", req |-> <<>>, peer |-> "sends", raised |-> FALSE,
            sendall |-> <<>>, sent |-> FALSE, task |-> 0]
\* The threads that reach return_new_header: the HeaderTask's (localCmd, line
\* 270) and the command dispatcher's (fits_file, line 640).
Callers == {"query", "dispatch"}
NoCall  == [pc |-> "idle", src |-> <<>>, pending |-> {}, i |-> 0, hdr |-> <<>>,
            res |-> <<>>]
NoProc  == [pc |-> "none", ret |-> 0, out |-> 0, err |-> 0, outLeft |-> 0, errLeft |-> 0,
            child |-> "none"]
NoSleep == [pc |-> "none", tag |-> <<>>, itime0 |-> 0, itime |-> 0, iters |-> 0,
            nap |-> 0, writes |-> <<>>]
NoBuild == [called |-> FALSE, frameid |-> StrV(""), itime |-> FloatV(0),
            utc_start |-> 0, fullHeader |-> PyTrue]
NoCmd   == [name |-> "", tag |-> <<>>, exptime |-> 0, nread |-> 0, nreset |-> 0, n |-> 0,
            wbase |-> 0, xbase |-> 0]

\* After __init__ and initialize(): lines 102-128 and 189-242.
LifeInit ==
    /\ ev_quit = FALSE
    /\ status_task = 0
    /\ power_task = 0
    /\ nStarts = 0
    /\ nStops = 0
    /\ lastOp = "initialize"
    /\ prevOp = "__init__"
    /\ stopCalls = [t \in Tasks |-> 0]
    /\ nPowerOffs = 0
    /\ shutdowns = <<>>

TaskInit ==
    /\ statPc = [t \in Tasks |-> "none"]
    /\ hdrPc = [t \in Tasks |-> "none"]
    /\ portOwner = 0
    /\ quitEnters = [t \in Tasks |-> 0]
    /\ quitWaits = [t \in Tasks |-> 0]

ConnInit ==
    /\ conn = NoConn
    /\ connNo = 0
    /\ failedAt = 0

\* Line 235: setvals(..., count=0).
PutInit ==
    /\ count = 0
    /\ tmp = [t \in Threads \cup Tasks |-> 0]
    /\ putPc = [t \in Threads |-> "idle"]
    /\ putLeft = [t \in Threads |-> 0]
    /\ putDone = 0

\* Lines 224-229: the two tables as read, and their dictionaries.
\* No definition file is being read.
NoFile == [present |-> FALSE, lines |-> <<>>, newline |-> TRUE]

LoadInit ==
    /\ hdrFile = NoFile
    /\ loadRes = "none"

TableInit ==
    /\ LoadInit
    /\ tel_header \in TelTables
    /\ ao_header \in AoTables
    /\ statusDictTel = init_stat_dict(tel_header)
    /\ statusDictAO = init_stat_dict(ao_header)

BuildInit ==
    /\ buildIn = NoBuild
    /\ buildRes = Return(<<>>)
    /\ rnh = [t \in Callers |-> NoCall]
    /\ heap = <<>>
    /\ built = <<>>

\* Line 121.
CmdInit ==
    /\ mode = "default"
    /\ ocsvals = <<>>
    /\ execLog = <<>>
    /\ dispatchIn = NoCmd
    /\ dispatchRes = "none"
    /\ proc = NoProc
    /\ slp = NoSleep

-----------------------------------------------------------------------------
(* BuildSpec: fetch_header over definition tables and status dictionaries *)

Restrict(f, K) == [a \in K |-> f[a]]

\* The dictionaries a build may be handed for a table: any part of the
\* table's own dictionary, holding the defaults or a snapshot of the source.
DictsFor(header) ==
    LET d0 == init_stat_dict(header) IN
    { Restrict(src, K) : K \in SUBSET (DOMAIN d0), src \in {d0} \cup
                             { Restrict(sn, DOMAIN d0) : sn \in Snapshots } }

BuildSpecInit ==
    /\ LifeInit /\ TaskInit /\ ConnInit /\ PutInit /\ BuildInit /\ CmdInit
    /\ LoadInit
    /\ tel_header \in TelTables
    /\ ao_header \in AoTables
    /\ statusDictTel \in DictsFor(tel_header)
    /\ statusDictAO \in DictsFor(ao_header)

BuildArgs ==
    [called : {TRUE}, frameid : {StrV("9999"), IntV(9999)},
     itime : {FloatV(4500), StrV("abc")}, utc_start : Nows,
     fullHeader : {PyTrue, PyFalse}]

\* A direct call of fetch_header (as lines 359 and 375-377 make).
FetchHeader(a) ==
    /\ buildIn' = a
    /\ buildRes' = fetch_header(tel_header, statusDictTel, ao_header, statusDictAO,
                                a.frameid, a.itime, StrV("planetX"), a.utc_start,
                                a.fullHeader)
    /\ UNCHANGED <<lifeVars, taskVars, connVars, putVars, tableVars, dictVars, cmdVars, rnh, heap, built>>

BuildNext == \E a \in BuildArgs : FetchHeader(a)

BuildSpec == BuildSpecInit /\ [][BuildNext]_vars

\* Indexes of the entries whose alias the dictionary lacks.
Missing(header, statusDict) ==
    {i \in 1..Len(header) : header[i][1] # "NA" /\ header[i][1] \notin DOMAIN statusDict}
FirstMissing(header, statusDict) ==
    CHOOSE i \in Missing(header, statusDict) :
        \A j \in Missing(header, statusDict) : i <= j

\* The last call was a full build that got as far as the table loops.
FullBuild == buildIn.called /\ buildIn.fullHeader # PyFalse /\ Returned(PyFloat(buildIn.itime))
\* ... and met an absent alias in the telescope table (lines 454-458)
MetTel == FullBuild /\ Missing(tel_header, statusDictTel) # {}
\* ... or passed lines 454-472 and met one in the AO table (lines 515-519).
MetAo  == /\ FullBuild
          /\ Missing(tel_header, statusDictTel) = {}
          /\ Returned(wcs(statusDictTel, statusDictAO))
          /\ Missing(ao_header, statusDictAO) # {}

\* Every key the tables and the fixed fields would emit.
TableKeys(header) == {header[i][2] : i \in 1..Len(header)}

ShortForm ==
    fetch_header(tel_header, statusDictTel, ao_header, statusDictAO, buildIn.frameid,
                 buildIn.itime, StrV("planetX"), buildIn.utc_start, PyFalse)
FullForm ==
    fetch_header(tel_header, statusDictTel, ao_header, statusDictAO, buildIn.frameid,
                 buildIn.itime, StrV("planetX"), buildIn.utc_start, PyTrue)

\* The keys of the fixed fields, in the order lines 397-442 set them.
FixedKeys ==
    <<"DATE-OBS", "UT", "UT-STR", "UT-END", "HST", "HST-STR", "HST-END",
      "MJD", "MJD-STR", "MJD-END", "FRAMEID", "EXPTIME">>

KeySeq(hdr) == [i \in 1..Len(hdr) |-> hdr[i][1]]

\* C14: for the same inputs the short form holds exactly the fixed fields, in
\* order, and is a proper prefix (cards and values) of the full form.
C14_ShortIsPrefix ==
    buildIn.called =>
        /\ buildRes = IF buildIn.fullHeader = PyFalse THEN ShortForm ELSE FullForm
        /\ Returned(ShortForm) => KeySeq(ShortForm.val) = FixedKeys
        /\ (Returned(ShortForm) /\ Returned(FullForm)) =>
              /\ Len(ShortForm.val) < Len(FullForm.val)
              /\ SubSeq(FullForm.val, 1, Len(ShortForm.val)) = ShortForm.val

\* A short build was made for inputs whose full build succeeds too.
C14_Witness ==
    /\ buildIn.called /\ buildIn.fullHeader = PyFalse
    /\ Returned(buildRes) /\ Returned(FullForm)

\* The card of a table entry: the default of a constant entry, else the
\* dictionary's current value.
EntryCard(e, statusDict) ==
    <<e[2], IF e[1] = "NA" THEN e[4] ELSE statusDict[e[1]], e[5]>>
TableCards(header, statusDict) ==
    [i \in 1..Len(header) |-> EntryCard(header[i], statusDict)]

\* C15: a full build that returns holds, after the fixed fields and OBJECT,
\* one card per entry of the telescope table in file order, the three comment
\* cards, then one card per entry of the AO table in file order.
C15_TableOrder ==
    (buildIn.called /\ buildIn.fullHeader # PyFalse /\ Returned(buildRes)) =>
        LET n == Len(FixedKeys) + 1 IN
        /\ Len(buildRes.val) = n + Len(tel_header) + 3 + Len(ao_header)
        /\ SubSeq(buildRes.val, n + 1, n + Len(tel_header))
              = TableCards(tel_header, statusDictTel)
        /\ \A i \in 1..3 : buildRes.val[n + Len(tel_header) + i][1] = "COMMENT"
        /\ SubSeq(buildRes.val, n + Len(tel_header) + 4, Len(buildRes.val))
              = TableCards(ao_header, statusDictAO)

\* A full build returned, over tables with constant and status entries and
\* dictionaries whose values differ from the defaults.
C15_Witness ==
    /\ buildIn.called /\ buildIn.fullHeader = PyTrue /\ Returned(buildRes)
    /\ tel_header = TelFull /\ ao_header = AoFull
    /\ statusDictTel["FITS.SBR.RA"] # TelFull[1][4]
    /\ statusDictAO["AON.LOOP"] # AoFull[3][4]

Abs(n) == IF n < 0 THEN 0 - n ELSE n

\* RA and DEC of the telescope dictionary as h/d, m, s tokens, and the
\* degrees they stand for (in units of 1/3600000 degree): the sign of the
\* degree token, "-0" included, applies to the whole declination.
RaTokens  == SplitColon(statusDictTel["FITS.SBR.RA"][2])
DecTokens == SplitColon(statusDictTel["FITS.SBR.DEC"][2])
RaExpected ==
    15 * (FloatTok(RaTokens[1]) * 3600 + FloatTok(RaTokens[2]) * 60 + FloatTok(RaTokens[3]))
DecExpected ==
    LET mag == Abs(FloatTok(DecTokens[1])) * 3600 + FloatTok(DecTokens[2]) * 60
               + FloatTok(DecTokens[3])
    IN  IF DecTokens[1] \in {"-0", "-20"} THEN 0 - mag ELSE mag

\* C18: a full build that returns has converted RA to 15*(h + m/60 + s/3600)
\* and DEC with the sign applied to the whole value: "10:00:00" is 150.0 deg,
\* "-20:30:00" is -20.5 deg and "-0:30:00" is -0.5 deg.
C18_Sexagesimal ==
    (buildIn.called /\ buildIn.fullHeader # PyFalse /\ Returned(buildRes)) =>
        LET w == wcs(statusDictTel, statusDictAO) IN
        /\ Returned(w)
        /\ w.val = <<RaExpected, DecExpected>>
        /\ RaTokens = <<"10", "00", "00">> => w.val[1] = 150 * 3600000
        /\ DecTokens = <<"-20", "30", "00">> => 2 * w.val[2] = 0 - 41 * 3600000
        /\ DecTokens = <<"-0", "30", "00">> => 2 * w.val[2] = 0 - 3600000
        /\ DecTokens = <<"10", "00", "00">> => w.val[2] = 10 * 3600000

\* A full build returned with DEC "-0:30:00" in the dictionary.
C18_Witness ==
    /\ buildIn.called /\ buildIn.fullHeader = PyTrue /\ Returned(buildRes)
    /\ statusDictTel["FITS.SBR.DEC"] = StrV("-0:30:00")

-----------------------------------------------------------------------------
(* read_header_list, and LoadSpec: initialize() reading one definition file *)

\* long(token).
IntTokens == {"0", "1", "7", "12"}
PyLong(s) ==
    IF s \in IntTokens THEN Return(IntV(FloatTok(s) \div 1000)) ELSE Raise("ValueError", "")

\* The lines of a definition file, each as re.split('[\s!\n\t]+', line[:-1])
\* gives it; a line whose text starts with '#' has "#" as its first token.
DefLines ==
    { <<"FITS.SBR.RA", "RA", "string", "10:00", "RA", "of", "pointing">>,
      <<"NA", "TELESCOP", "string", "Subaru">>,
      <<"AON.IMR.PAD", "D_IMRPAD", "float", "0.0", "IMR", "angle">>,
      <<"AON.CNT", "D_CNT", "int", "12">>,
      <<"AON.CNT", "D_CNT2", "int", "7">>,
      <<"AON.BAD", "D_BAD", "int", "abc">>,
      <<"AON.BAD", "D_BAD", "float", "abc">>,
      <<"AON.BAD", "D_BAD", "int", "4.5">>,
      <<"AON.X", "D_X", "double", "1.5">>,
      <<"AON.S", "D_S", "int">>,
      <<"#", "comment">>,
      <<"">> }

\* token[:-1]: what line[:-1] leaves of the last token of a last line that
\* has no newline to lose.
Chop(tok) ==
    CASE tok = "pointing" -> "pointin"
      [] tok = "Subaru"   -> "Subar"
      [] tok = "angle"    -> "angl"
      [] tok = "12"       -> "1"
      [] tok = "7"        -> ""
      [] tok = "abc"      -> "ab"
      [] tok = "4.5"      -> "4."
      [] tok = "1.5"      -> "1."
      [] tok = "int"      -> "in"
      [] tok = "comment"  -> "commen"

\* Line 148 and line[:-1] of line 150: the lines as the loop splits them.
SplitLines(f) ==
    IF f.newline \/ Len(f.lines) = 0 THEN f.lines
    ELSE LET last == f.lines[Len(f.lines)] IN
         [f.lines EXCEPT ![Len(f.lines)] = [last EXCEPT ![Len(last)] = Chop(last[Len(last)])]]

IsComment(param) == param[1] = "#"

Unbound == <<"unbound">>

\* Lines 151-159: FitsDefault after the line, given its value before it.
fits_default(param, FitsDefault) ==
    IF Len(param) < 3 THEN Raise("IndexError", "")
    ELSE IF param[3] \in {"string", "float", "int"} /\ Len(param) < 4
    THEN Raise("IndexError", "")
    ELSE IF param[3] = "string" THEN Return(StrV(param[4]))
    ELSE IF param[3] = "float"
    THEN LET r == PyFloat(StrV(param[4])) IN
         IF Returned(r) THEN Return(FloatV(r.val)) ELSE r
    ELSE IF param[3] = "int" THEN PyLong(param[4])
    ELSE Return(FitsDefault)

\* Lines 148-176: the loop over the lines, and the zip.
RECURSIVE read_lines(_, _, _, _)
read_lines(lines, i, FitsDefault, header) ==
    IF i > Len(lines) THEN Return(header)
    ELSE IF IsComment(lines[i]) THEN read_lines(lines, i + 1, FitsDefault, header)
    ELSE LET param == lines[i]
             d     == fits_default(param, FitsDefault)
         IN  IF ~Returned(d) THEN d
             ELSE IF d.val = Unbound THEN Raise("UnboundLocalError", "")
             ELSE read_lines(lines, i + 1, d.val,
                             Append(header, <<param[1], param[2], param[3], d.val,
                                              SubSeq(param, 5, Len(param))>>))

\* Lines 135-180.
read_header_list(f) ==
    IF ~f.present THEN Raise("CHARISError", "")
    ELSE read_lines(SplitLines(f), 1, Unbound, <<>>)

RECURSIVE SeqsUpTo(_, _)
SeqsUpTo(S, n) ==
    IF n = 0 THEN {<<>>}
    ELSE LET shorter == SeqsUpTo(S, n - 1) IN
         shorter \cup {Append(q, x) : q \in shorter, x \in S}

\* The files: absent, or some lines, the last of them with or without its
\* newline (an empty last line without one is no line at all).
DefFiles ==
    {NoFile} \cup
    { f \in [present : {TRUE}, lines : SeqsUpTo(DefLines, MaxLines), newline : BOOLEAN] :
        f.newline \/ (Len(f.lines) > 0 /\ f.lines[Len(f.lines)] # <<"">>) }

LoadSpecInit ==
    /\ LifeInit /\ TaskInit /\ ConnInit /\ PutInit /\ BuildInit /\ CmdInit
    /\ hdrFile \in DefFiles
    /\ loadRes = "none"
    /\ tel_header = <<>>
    /\ statusDictTel = <<>>
    /\ ao_header = AoFull
    /\ statusDictAO = init_stat_dict(AoFull)

\* Lines 224-225: self.tel_header = self.read_header_list(...), then
\* self.statusDictTel = self.init_stat_dict(self.tel_header).
ReadHeaderList ==
    /\ loadRes = "none"
    /\ LET r == read_header_list(hdrFile) IN
       /\ loadRes' = r.kind
       /\ tel_header' = IF Returned(r) THEN r.val ELSE tel_header
       /\ statusDictTel' = IF Returned(r) THEN init_stat_dict(r.val) ELSE statusDictTel
    /\ UNCHANGED <<hdrFile, ao_header, statusDictAO>>
    /\ UNCHANGED <<lifeVars, taskVars, connVars, putVars, buildVars, cmdVars>>

LoadNext == ReadHeaderList

LoadSpec == LoadSpecInit /\ [][LoadNext]_vars

\* The lines of the file that are no comments, as written and as split.
DataLines(f) == SelectSeq(f.lines, LAMBDA l : ~IsComment(l))
LoadedLines(f) == SelectSeq(SplitLines(f), LAMBDA l : ~IsComment(l))

\* The value a type token and a default token stand for, if any.
TypedDefault(type, tok) ==
    CASE type = "string" -> Return(StrV(tok))
      [] type = "float"  -> IF tok \in {"0.0", "0.", "1.5", "1."}
                            THEN Return(FloatV(FloatTok(tok)))
                            ELSE Raise("ValueError", "")
      [] type = "int"    -> IF tok \in {"12", "7", "1"}
                            THEN Return(IntV(FloatTok(tok) \div 1000))
                            ELSE Raise("ValueError", "")
      [] OTHER           -> Raise("ValueError", "")

\* A line with a type of int or float and a default that is no such number.
Malformed(l) ==
    /\ ~IsComment(l) /\ Len(l) >= 4
    /\ l[3] \in {"int", "float"}
    /\ ~Returned(TypedDefault(l[3], l[4]))

\* Every line is a comment or has its four fields, a recognized type and a
\* default of that type, and every line ends with a newline.
WellFormed(f) ==
    /\ f.present /\ f.newline
    /\ \A i \in 1..Len(f.lines) :
          LET l == f.lines[i] IN
          IsComment(l) \/ (Len(l) >= 4 /\ Returned(TypedDefault(l[3], l[4])))

\* The runtime type of a value is the one the type token names.
TypeMatches(type, v) ==
    \/ type = "string" /\ v[1] = "str"
    \/ type = "float" /\ v[1] = "float"
    \/ type = "int" /\ v[1] = "int"

\* C11: a file with a malformed type/default combination makes
\* read_header_list fail with CHARISError (and so return no table).
C11_ConfigError ==
    (loadRes # "none" /\ hdrFile.present
        /\ \E i \in 1..Len(hdrFile.lines) : Malformed(hdrFile.lines[i]))
    => loadRes = "CHARISError"

\* C12: every entry of a returned table has a default of the runtime type its
\* own type field names, computed from its own default token.
C12_DefaultTyped ==
    loadRes = "return" =>
        /\ Len(tel_header) = Len(DataLines(hdrFile))
        /\ \A i \in 1..Len(tel_header) :
              LET l == LoadedLines(hdrFile)[i] IN
              /\ TypeMatches(tel_header[i][3], tel_header[i][4])
              /\ Len(l) >= 4
              /\ Returned(TypedDefault(l[3], l[4]))
              /\ tel_header[i][4] = TypedDefault(l[3], l[4]).val

-----------------------------------------------------------------------------
(* DispatchSpec: dispatchCommand and the instrument commands *)

\* What getattr(self, cmdName) finds (lines 338-345).
Operations   == {"ramp", "obcp_mode", "sleep", "grism", "shutter", "filter"}
                                               \* methods that take tag=
OtherMethods == {"putstatus", "stop"}          \* methods without a tag parameter
DataAttrs    == {"mode", "param", "logger"}    \* attributes that are no methods
CmdNames     == Operations \cup OtherMethods \cup DataAttrs \cup {"nosuch"}

AttrKind(cmdName) ==
    IF cmdName \in Operations THEN "operation"
    ELSE IF cmdName \in OtherMethods THEN "method"
    ELSE IF cmdName \in DataAttrs THEN "data"
    ELSE "absent"

CmdTags == {<<"tag1">>, <<"tag2">>}
\* '%s.1' % tag
SubTag(tag) == Append(tag, 1)

\* ocs.setvals(on, **keys); sub is the value of subpath when that is written.
SetVals(on, keys) == [on |-> on, keys |-> keys, sub |-> <<>>]
SetSubpath(tag)   == [on |-> tag, keys |-> {"subpath"}, sub |-> SubTag(tag)]

\* What a command did: its setvals calls, its external commands, its outcome.
Did(writes, execs, res) == [writes |-> writes, execs |-> execs, res |-> res]

\* Lines 762-770: the command line handed to execOneCmd, times in thousandths.
ramp_cmd(exptime, nreset, nread) ==
    IF nread > 0
    THEN <<"hx", "ramp", nreset, "nread", nread, (nread + nreset) * 1500 + 20000>>
    ELSE <<"hx", "ramp", nreset, "itime", exptime, nreset * 1500 + exptime + 20000>>

\* Lines 759-775, after the parameter check. execOk: execOneCmd returned.
ramp_body(tag, exptime, nreset, nread, execOk) ==
    LET start == <<SetSubpath(tag), SetVals(SubTag(tag), {"task_start", "cmd_str"})>> IN
    IF ~execOk
    THEN Did(start, <<ramp_cmd(exptime, nreset, nread)>>, "OSError")
    ELSE Did(start \o <<SetVals(SubTag(tag), {"cmd_str"}),
                         SetVals(SubTag(tag), {"task_end", "cmd_str"})>>,
             <<ramp_cmd(exptime, nreset, nread)>>, "returned")

\* ramp without the return of line 755.
ramp_no_return(tag, exptime, nreset, nread, execOk) ==
    LET b == ramp_body(tag, exptime, nreset, nread, execOk) IN
    IF nread > 0 /\ exptime > 0
    THEN Did(<<b.writes[1], SetVals(SubTag(tag), {"task_error"})>> \o Tail(b.writes),
             b.execs, b.res)
    ELSE b

\* Lines 740-775.
ramp(tag, exptime, nreset, nread, execOk) ==
    IF nread > 0 /\ exptime > 0
    THEN Did(<<SetSubpath(tag), SetVals(SubTag(tag), {"task_error"})>>, <<>>, "returned")
    ELSE ramp_body(tag, exptime, nreset, nread, execOk)

\* sleep with its progress written on the original tag.
sleep_reports_on_tag(tag, sleep_time) ==
    LET itime == PyFloat(sleep_time) IN
    IF ~Returned(itime) THEN Did(<<>>, <<>>, itime.kind)
    ELSE LET n == IF itime.val > 0 THEN itime.val \div 1000 ELSE 0 IN
         Did(<<SetSubpath(tag), SetVals(SubTag(tag), {"task_start", "cmd_str"})>>
             \o [i \in 1..n |-> SetVals(tag, {"cmd_str"})]
             \o <<SetVals(SubTag(tag), {"cmd_str"}), SetVals(SubTag(tag), {"task_end"})>>,
             <<>>, "returned")

\* Lines 532-563. The loop of lines 555-559 runs int(itime) times for a
\* positive itime (thousandths here) and not at all otherwise.
sleep(tag, sleep_time) ==
    LET itime == PyFloat(sleep_time) IN
    IF ~Returned(itime) THEN Did(<<>>, <<>>, itime.kind)
    ELSE LET n == IF itime.val > 0 THEN itime.val \div 1000 ELSE 0 IN
         Did(<<SetSubpath(tag), SetVals(SubTag(tag), {"task_start", "cmd_str"})>>
             \o [i \in 1..n |-> SetVals(SubTag(tag), {"cmd_str"})]
             \o <<SetVals(SubTag(tag), {"cmd_str"}), SetVals(SubTag(tag), {"task_end"})>>,
             <<>>, "returned")

\* Lines 676-696.
grism(tag) ==
    Did(<<SetSubpath(tag), SetVals(SubTag(tag), {"task_start", "cmd_str"}),
          SetVals(SubTag(tag), {"cmd_str"}),
          SetVals(SubTag(tag), {"task_end", "cmd_str"})>>, <<>>, "returned")

\* Lines 698-717.
shutter(tag) ==
    Did(<<SetSubpath(tag), SetVals(SubTag(tag), {"task_start", "cmd_str"}),
          SetVals(SubTag(tag), {"cmd_str"}),
          SetVals(SubTag(tag), {"task_end"})>>, <<>>, "returned")

\* Lines 719-738: 'filter ' + name raises TypeError for name=None (the
\* default), after task_start is written. execOk: execOneCmd returned.
filter(tag, name, execOk) ==
    LET start == <<SetSubpath(tag), SetVals(SubTag(tag), {"task_start", "cmd_str"})>>
        cmd   == <<"charis", "filter", name, 90000>>
    IN  IF name = PyNone THEN Did(start, <<>>, "TypeError")
        ELSE IF ~execOk THEN Did(start, <<cmd>>, "OSError")
        ELSE Did(start \o <<SetVals(SubTag(tag), {"cmd_str"}),
                             SetVals(SubTag(tag), {"task_end"})>>, <<cmd>>, "returned")

SleepTimes  == {IntV(0), FloatV(2500), StrV("1"), StrV("abc")}
FilterNames == {PyNone, StrV("J")}

CmdArgs ==
    [name : CmdNames, tag : CmdTags, exptime : {0, 5000}, nread : {0, 2},
     nreset : {1}, newmode : {"OBS", "CAL"}, arg : SleepTimes \cup FilterNames,
     execOk : BOOLEAN]

\* Arguments that do not reach the named command are left at one value.
UsedArgs(a) ==
    /\ a.name # "ramp" => a.exptime = 0 /\ a.nread = 0
    /\ (a.name \notin {"ramp", "filter"} \/ (a.nread > 0 /\ a.exptime > 0)) => a.execOk
    /\ (a.name = "filter" /\ a.arg = PyNone) => a.execOk
    /\ a.name # "obcp_mode" => a.newmode = "OBS"
    /\ a.name = "sleep" => a.arg \in SleepTimes
    /\ a.name = "filter" => a.arg \in FilterNames
    /\ a.name \notin {"sleep", "filter"} => a.arg = PyNone

\* Lines 330-347: the method is looked up by name and called with tag= added
\* to the keyword arguments.
dispatchCommand(a) ==
    CASE AttrKind(a.name) = "absent" -> Did(<<>>, <<>>, "CamCommandError")
      [] AttrKind(a.name) = "data"   -> Did(<<>>, <<>>, "TypeError")
      [] AttrKind(a.name) = "method" -> Did(<<>>, <<>>, "TypeError")
      [] a.name = "ramp"      -> ramp(a.tag, a.exptime, a.nreset, a.nread, a.execOk)
      [] a.name = "sleep"     -> sleep(a.tag, a.arg)
      [] a.name = "grism"     -> grism(a.tag)
      [] a.name = "shutter"   -> shutter(a.tag)
      [] a.name = "filter"    -> filter(a.tag, a.arg, a.execOk)
      [] a.name = "obcp_mode" -> Did(<<>>, <<>>, "returned")

DispatchCommand(a) ==
    /\ dispatchIn.n < MaxCmds
    /\ UsedArgs(a)
    /\ LET d == dispatchCommand(a) IN
       /\ dispatchIn' = [name |-> a.name, tag |-> a.tag, exptime |-> a.exptime,
                         nread |-> a.nread, nreset |-> a.nreset, n |-> dispatchIn.n + 1,
                         wbase |-> Len(ocsvals), xbase |-> Len(execLog)]
       /\ dispatchRes' = d.res
       /\ ocsvals' = ocsvals \o d.writes
       /\ execLog' = execLog \o d.execs
       \* Lines 566-569: obcp_mode sets self.mode.
       /\ mode' = IF a.name = "obcp_mode" THEN a.newmode ELSE mode
    /\ UNCHANGED <<lifeVars, taskVars, connVars, putVars, tableVars, dictVars, buildVars,
                   proc, slp>>

DispatchInit ==
    /\ LifeInit /\ TaskInit /\ ConnInit /\ PutInit /\ TableInit /\ BuildInit /\ CmdInit
    /\ tel_header = TelFull /\ ao_header = AoFull

DispatchNext == \E a \in CmdArgs : DispatchCommand(a)

DispatchSpec == DispatchInit /\ [][DispatchNext]_vars

\* The setvals calls and external commands of the last dispatched command.
LastWrites == SubSeq(ocsvals, dispatchIn.wbase + 1, Len(ocsvals))
LastExecs  == SubSeq(execLog, dispatchIn.xbase + 1, Len(execLog))

\* C8: a command name that resolves to no operation -- no attribute at all,
\* or an attribute that is no method -- fails with CamCommandError.
C8_UnknownCommandError ==
    (dispatchIn.n > 0 /\ AttrKind(dispatchIn.name) \in {"absent", "data"})
        => dispatchRes = "CamCommandError"

\* C9 as stated: ramp with exptime > 0 and nread > 0 writes task_error on the
\* sub-tag and nothing else; in particular nothing on the original tag.
C9_OnlyTaskError ==
    (dispatchIn.name = "ramp" /\ dispatchIn.exptime > 0 /\ dispatchIn.nread > 0)
        => /\ LastWrites = <<SetVals(SubTag(dispatchIn.tag), {"task_error"})>>
           /\ LastExecs = <<>>

\* C9 amended: such a ramp writes subpath on the original tag (the sub-tag
\* association every monitorable command starts with), then task_error on the
\* sub-tag, and returns: no task_start, task_end or cmd_str is written and no
\* external command is executed.
C9_SubpathThenTaskError ==
    (dispatchIn.name = "ramp" /\ dispatchIn.exptime > 0 /\ dispatchIn.nread > 0)
        => /\ LastWrites = <<SetSubpath(dispatchIn.tag),
                             SetVals(SubTag(dispatchIn.tag), {"task_error"})>>
           /\ LastExecs = <<>>
           /\ dispatchRes = "returned"

\* A second command was a ramp given both exptime and nread.
C9_Witness ==
    /\ dispatchIn.n = 2 /\ dispatchIn.name = "ramp"
    /\ dispatchIn.exptime > 0 /\ dispatchIn.nread > 0
    /\ dispatchRes = "returned" /\ dispatchIn.wbase > 0

-----------------------------------------------------------------------------
(* putstatus, and PutSpec: threads calling it concurrently *)

\* Line 782, "self.stattbl1.count += 1": the attribute is read ...
count_read(t) == tmp' = [tmp EXCEPT ![t] = count]
\* ... and the sum is stored back; lines 783-786 export the table.
count_write(t) ==
    /\ count' = tmp[t] + 1
    /\ putDone' = putDone + 1

PutRead(t) ==
    /\ putPc[t] = "idle" /\ putLeft[t] > 0
    /\ count_read(t)
    /\ putPc' = [putPc EXCEPT ![t] = "read"]
    /\ UNCHANGED <<count, putLeft, putDone>>
    /\ UNCHANGED <<lifeVars, taskVars, connVars, tableVars, dictVars, buildVars, cmdVars>>

PutWrite(t) ==
    /\ putPc[t] = "read"
    /\ count_write(t)
    /\ putPc' = [putPc EXCEPT ![t] = "idle"]
    /\ putLeft' = [putLeft EXCEPT ![t] = putLeft[t] - 1]
    /\ UNCHANGED tmp
    /\ UNCHANGED <<lifeVars, taskVars, connVars, tableVars, dictVars, buildVars, cmdVars>>

PutSpecInit ==
    /\ LifeInit /\ TaskInit /\ ConnInit /\ TableInit /\ BuildInit /\ CmdInit
    /\ tel_header = TelFull /\ ao_header = AoFull
    /\ count = 0
    /\ tmp = [t \in Threads \cup Tasks |-> 0]
    /\ putPc = [t \in Threads |-> "idle"]
    /\ putLeft = [t \in Threads |-> KCalls]
    /\ putDone = 0

PutNext == \E t \in Threads : PutRead(t) \/ PutWrite(t)

PutSpec == PutSpecInit /\ [][PutNext]_vars

\* C1: when every thread has made its KCalls putstatus calls, count is its
\* initial value plus KCalls * NThreads: no increment is lost.
C1_NoLostUpdate ==
    (\A t \in Threads : putLeft[t] = 0) => count = KCalls * NThreads

-----------------------------------------------------------------------------
(* Spec: start(), stop(), the periodic status task and the HeaderTask *)

Bump(n) == IF n < 2 THEN n + 1 ELSE n

\* Lines 245-265. Both tasks get the facade's ev_quit through self.shares
\* (line 206); the PowerMonTask is created and never started; only the
\* IntervalTask is kept in a field.
Start ==
    /\ nStarts < MaxStarts
    /\ nStarts' = nStarts + 1
    /\ status_task' = nStarts + 1
    /\ statPc' = [statPc EXCEPT ![nStarts + 1] = "loop"]
    /\ hdrPc' = [hdrPc EXCEPT ![nStarts + 1] = "init"]
    /\ lastOp' = "start"
    /\ prevOp' = lastOp
    /\ UNCHANGED <<ev_quit, power_task, nStops, stopCalls, portOwner, quitEnters, quitWaits>>
    /\ UNCHANGED <<nPowerOffs, shutdowns>>
    /\ UNCHANGED <<connVars, putVars, tableVars, dictVars, buildVars, cmdVars>>

\* IntervalTask.stop(), the method HeaderTask.stop() (lines 78-79) is a copy
\* of: it sets the task's ev_quit, which is the facade's.
IntervalTask_stop(t) ==
    /\ stopCalls' = [stopCalls EXCEPT ![t] = stopCalls[t] + 1]
    /\ ev_quit' = TRUE

\* stop() without line 285.
stop_keeps_handle ==
    /\ IF status_task # 0
       THEN IntervalTask_stop(status_task)
       ELSE UNCHANGED <<stopCalls, ev_quit>>
    /\ UNCHANGED status_task
    /\ power_task' = 0

\* Lines 278-293.
stop ==
    /\ IF status_task # 0
       THEN IntervalTask_stop(status_task)
       ELSE UNCHANGED <<stopCalls, ev_quit>>
    /\ status_task' = 0
    /\ power_task' = 0

Stop ==
    /\ nStops < MaxStops
    /\ stop
    /\ nStops' = nStops + 1
    /\ lastOp' = "stop"
    /\ prevOp' = lastOp
    /\ UNCHANGED <<nStarts, nPowerOffs, shutdowns, taskVars>>
    /\ UNCHANGED <<connVars, putVars, tableVars, dictVars, buildVars, cmdVars>>

\* ocs.shutdown(res), recorded with the facade's state at the call.
Shutdown(res, st, pt, stops) ==
    [res |-> res, status_task |-> st, power_task |-> pt, stops |-> stops]

\* power_off with lines 868 and 870 exchanged.
power_off_signals_first ==
    /\ shutdowns' = Append(shutdowns, Shutdown(1, status_task, power_task, nStops))
    /\ stop

\* Lines 853-870: res = 1, self.stop(), then self.ocs.shutdown(res).
power_off ==
    /\ stop
    /\ shutdowns' = Append(shutdowns, Shutdown(1, status_task', power_task', nStops + 1))

PowerOff ==
    /\ nPowerOffs < MaxPowerOffs
    /\ power_off
    /\ nPowerOffs' = nPowerOffs + 1
    /\ nStops' = nStops + 1
    /\ lastOp' = "power_off"
    /\ prevOp' = lastOp
    /\ UNCHANGED <<nStarts, taskVars>>
    /\ UNCHANGED <<connVars, putVars, tableVars, dictVars, buildVars, cmdVars>>

\* IntervalTask.execute(): the loop tests ev_quit, calls fn = putstatus, and
\* waits for the interval. putstatus is lines 778-786.
StatCheck(t) ==
    /\ statPc[t] = "loop"
    /\ IF ev_quit
       THEN /\ statPc' = [statPc EXCEPT ![t] = "done"]
            /\ UNCHANGED tmp
       ELSE /\ putDone < MaxCount
            /\ count_read(t)
            /\ statPc' = [statPc EXCEPT ![t] = "put"]
    /\ UNCHANGED <<count, putPc, putLeft, putDone>>
    /\ UNCHANGED <<hdrPc, portOwner, quitEnters, quitWaits>>
    /\ UNCHANGED <<lifeVars, connVars, tableVars, dictVars, buildVars, cmdVars>>

StatPut(t) ==
    /\ statPc[t] = "put"
    /\ count_write(t)
    /\ statPc' = [statPc EXCEPT ![t] = "loop"]
    /\ UNCHANGED <<tmp, putPc, putLeft>>
    /\ UNCHANGED <<hdrPc, portOwner, quitEnters, quitWaits>>
    /\ UNCHANGED <<lifeVars, connVars, tableVars, dictVars, buildVars, cmdVars>>

\* Line 88: the loop condition of HeaderTask.execute.
loop_forever == TRUE
loop_continues == ~ev_quit

\* Lines 70-73 and 85: the server's accept wait has a timeout.
accept_has_timeout == TRUE

\* Lines 89-92: an exception out of handle_request is logged and the loop
\* goes on.
execute_reraises == "crashed"
execute_on_error == "check"

\* Line 84: the server binds port 6666; a second server on the port fails,
\* and the exception ends execute().
HdrInit(h) ==
    /\ hdrPc[h] = "init"
    /\ IF portOwner = 0
       THEN /\ portOwner' = h
            /\ hdrPc' = [hdrPc EXCEPT ![h] = "check"]
       ELSE /\ hdrPc' = [hdrPc EXCEPT ![h] = "failed"]
            /\ UNCHANGED portOwner
    /\ UNCHANGED <<statPc, quitEnters, quitWaits>>
    /\ UNCHANGED <<lifeVars, connVars, putVars, tableVars, dictVars, buildVars, cmdVars>>

\* Line 88, then line 94 or the entry into handle_request's select.
HdrCheck(h) ==
    /\ hdrPc[h] = "check"
    /\ IF loop_continues
       THEN /\ hdrPc' = [hdrPc EXCEPT ![h] = "select"]
            /\ quitEnters' = [quitEnters EXCEPT ![h] = IF ev_quit THEN Bump(@) ELSE @]
            /\ UNCHANGED portOwner
       ELSE /\ hdrPc' = [hdrPc EXCEPT ![h] = "done"]
            /\ portOwner' = 0
            /\ UNCHANGED quitEnters
    /\ UNCHANGED <<statPc, quitWaits>>
    /\ UNCHANGED <<lifeVars, connVars, putVars, tableVars, dictVars, buildVars, cmdVars>>

WaitEnded(h) == quitWaits' = [quitWaits EXCEPT ![h] = IF ev_quit THEN Bump(@) ELSE @]

\* Line 90 with no connection waiting: select times out, handle_request
\* returns.
HdrTimeout(h) ==
    /\ hdrPc[h] = "select"
    /\ accept_has_timeout
    /\ conn.state # "pending"
    /\ hdrPc' = [hdrPc EXCEPT ![h] = "check"]
    /\ WaitEnded(h)
    /\ UNCHANGED <<statPc, portOwner, quitEnters>>
    /\ UNCHANGED <<lifeVars, connVars, putVars, tableVars, dictVars, buildVars, cmdVars>>

\* Line 90: handle_request itself raises (select or accept fails).
HdrSelectError(h) ==
    /\ hdrPc[h] = "select"
    /\ hdrPc' = [hdrPc EXCEPT ![h] = execute_on_error]
    /\ WaitEnded(h)
    /\ UNCHANGED <<statPc, portOwner, quitEnters>>
    /\ UNCHANGED <<lifeVars, connVars, putVars, tableVars, dictVars, buildVars, cmdVars>>

\* Line 90 with a connection waiting: it is accepted and the handler starts
\* at recv (line 61).
HdrAccept(h) ==
    /\ hdrPc[h] = "select"
    /\ conn.state = "pending"
    /\ conn' = [conn EXCEPT !.state = "open", !.task = h]
    /\ hdrPc' = [hdrPc EXCEPT ![h] = "recv"]
    /\ WaitEnded(h)
    /\ UNCHANGED <<connNo, failedAt>>
    /\ UNCHANGED <<statPc, portOwner, quitEnters>>
    /\ UNCHANGED <<lifeVars, putVars, tableVars, dictVars, buildVars, cmdVars>>

\* handle() with no try/except around localFunc.
handle_no_except(r, sendOk) ==
    IF Returned(r) /\ r.val[1] = "Header"
    THEN [raised |-> FALSE, sendall |-> tostring(r.val[2]), sent |-> sendOk,
          failed |-> ~sendOk]
    ELSE [raised |-> ~Returned(r), sendall |-> <<>>, sent |-> FALSE, failed |-> TRUE]

\* Lines 62-67, given what localFunc returned or raised: what is passed to
\* sendall (<<>> when sendall is never called), and whether the request failed.
handle(r, sendOk) ==
    LET hdr == IF Returned(r) THEN r.val ELSE Header(EmptyHeader) IN
    IF hdr[1] = "Header"
    THEN [raised |-> ~Returned(r), sendall |-> tostring(hdr[2]), sent |-> sendOk,
          failed |-> ~Returned(r) \/ ~sendOk]
    ELSE [raised |-> ~Returned(r), sendall |-> <<>>, sent |-> FALSE, failed |-> TRUE]

\* The connection after handle(): the server closes it whether handle()
\* returned or raised.
Closed(c, out) ==
    [c EXCEPT !.state = "closed", !.raised = out.raised, !.sendall = out.sendall,
              !.sent = out.sent]

Failed(out) == failedAt' = IF failedAt = 0 /\ out.failed THEN connNo ELSE failedAt

\* Lines 60-67 for a request that does not reach the status source.
HdrHandle(h) ==
    /\ hdrPc[h] = "recv"
    /\ conn.peer = "sends"
    /\ ~Refreshes(conn.req)
    /\ \E now \in Nows, sendOk \in BOOLEAN :
          LET out == handle(localCmd(tel_header, statusDictTel, ao_header, statusDictAO,
                                     conn.req, now), sendOk)
          IN  conn' = Closed(conn, out) /\ Failed(out)
    /\ hdrPc' = [hdrPc EXCEPT ![h] = "check"]
    /\ UNCHANGED <<connNo, statPc, portOwner, quitEnters, quitWaits>>
    /\ UNCHANGED <<lifeVars, putVars, tableVars, dictVars, buildVars, cmdVars>>

\* Lines 60-67 for an hdr request: return_new_header refreshes both
\* dictionaries (lines 368-372), then builds.
HdrHandleHdr(h) ==
    /\ hdrPc[h] = "recv"
    /\ conn.peer = "sends"
    /\ Refreshes(conn.req)
    /\ \E srcT \in Snapshots, srcA \in Snapshots, now \in Nows, sendOk \in BOOLEAN :
          LET dt  == requestOCSstatus(statusDictTel, srcT)
              da  == requestOCSstatus(statusDictAO, srcA)
              out == handle(localCmd(tel_header, dt, ao_header, da, conn.req, now), sendOk)
          IN  /\ statusDictTel' = dt
              /\ statusDictAO' = da
              /\ conn' = Closed(conn, out)
              /\ Failed(out)
    /\ hdrPc' = [hdrPc EXCEPT ![h] = "check"]
    /\ UNCHANGED <<connNo, statPc, portOwner, quitEnters, quitWaits>>
    /\ UNCHANGED <<lifeVars, putVars, tableVars, buildVars, cmdVars>>

\* Lines 368-369: the status source fails, and the exception leaves
\* return_new_header before anything is refreshed.
HdrHandleNoStatus(h) ==
    /\ hdrPc[h] = "recv"
    /\ conn.peer = "sends"
    /\ Refreshes(conn.req)
    /\ \E sendOk \in BOOLEAN :
          LET out == handle(Raise("StatusError", ""), sendOk)
          IN  conn' = Closed(conn, out) /\ Failed(out)
    /\ hdrPc' = [hdrPc EXCEPT ![h] = "check"]
    /\ UNCHANGED <<connNo, statPc, portOwner, quitEnters, quitWaits>>
    /\ UNCHANGED <<lifeVars, putVars, tableVars, dictVars, buildVars, cmdVars>>

\* A client connects to port 6666. A peer that "sends" writes one request
\* line; a "silent" one connects and never writes.
Connect(req, peer) ==
    /\ connNo < MaxConns
    /\ portOwner # 0
    /\ conn.state \in {"none", "closed"}
    /\ peer = "silent" => req = <<>>
    /\ conn' = [NoConn EXCEPT !.state = "pending", !.req = req, !.peer = peer]
    /\ connNo' = connNo + 1
    /\ UNCHANGED failedAt
    /\ UNCHANGED <<lifeVars, taskVars, putVars, tableVars, dictVars, buildVars, cmdVars>>

HdrStep(h) ==
    \/ HdrInit(h) \/ HdrCheck(h) \/ HdrTimeout(h) \/ HdrSelectError(h) \/ HdrAccept(h)
    \/ HdrHandle(h) \/ HdrHandleHdr(h) \/ HdrHandleNoStatus(h)

StatStep(t) == StatCheck(t) \/ StatPut(t)

\* The request lines of Spec: one the handler answers with no value, one it
\* rejects before it asks the status source.
LoopRequests == { <<"garbage">>, <<"hdr", "9999">> }

Init ==
    /\ LifeInit /\ TaskInit /\ ConnInit /\ PutInit /\ TableInit /\ BuildInit /\ CmdInit
    /\ tel_header = TelFull /\ ao_header = AoFull

Next ==
    \/ Start
    \/ Stop
    \/ \E t \in Tasks : StatCheck(t)
    \/ \E t \in Tasks : StatPut(t)
    \/ \E h \in Tasks : HdrInit(h)
    \/ \E h \in Tasks : HdrCheck(h)
    \/ \E h \in Tasks : HdrTimeout(h)
    \/ \E h \in Tasks : HdrSelectError(h)
    \/ \E h \in Tasks : HdrAccept(h)
    \/ \E h \in Tasks : HdrHandle(h)
    \/ \E req \in LoopRequests, peer \in {"sends", "silent"} : Connect(req, peer)

Spec == Init /\ [][Next]_vars

\* LifeSpec: start() and stop() in any order, with the tasks they launch and
\* no client.
LifeNext ==
    \/ Start
    \/ Stop
    \/ \E t \in Tasks : StatCheck(t)
    \/ \E t \in Tasks : StatPut(t)
    \/ \E h \in Tasks : HdrInit(h)
    \/ \E h \in Tasks : HdrCheck(h)
    \/ \E h \in Tasks : HdrTimeout(h)
    \/ \E h \in Tasks : HdrSelectError(h)

LifeSpec == Init /\ [][LifeNext]_vars

\* ServerSpec: the HeaderTask of one start() and its clients, with every kind
\* of request. It begins where start() has returned (lines 245-265); the
\* periodic task's steps, which touch only count, tmp and statPc, are left
\* to LifeSpec.
ServerInit ==
    /\ ev_quit = FALSE
    /\ status_task = 1
    /\ power_task = 0
    /\ nStarts = 1
    /\ nStops = 0
    /\ lastOp = "start"
    /\ prevOp = "initialize"
    /\ stopCalls = [t \in Tasks |-> 0]
    /\ nPowerOffs = 0
    /\ shutdowns = <<>>
    /\ statPc = [t \in Tasks |-> IF t = 1 THEN "loop" ELSE "none"]
    /\ hdrPc = [t \in Tasks |-> IF t = 1 THEN "init" ELSE "none"]
    /\ portOwner = 0
    /\ quitEnters = [t \in Tasks |-> 0]
    /\ quitWaits = [t \in Tasks |-> 0]
    /\ ConnInit /\ PutInit /\ TableInit /\ BuildInit /\ CmdInit
    /\ tel_header = TelFull

ServerNext ==
    \/ Stop
    \/ \E h \in Tasks : HdrInit(h)
    \/ \E h \in Tasks : HdrCheck(h)
    \/ \E h \in Tasks : HdrTimeout(h)
    \/ \E h \in Tasks : HdrSelectError(h)
    \/ \E h \in Tasks : HdrAccept(h)
    \/ \E h \in Tasks : HdrHandle(h)
    \/ \E h \in Tasks : HdrHandleHdr(h)
    \/ \E h \in Tasks : HdrHandleNoStatus(h)
    \/ \E req \in Requests, peer \in {"sends", "silent"} : Connect(req, peer)

ServerSpec == ServerInit /\ [][ServerNext]_vars

-----------------------------------------------------------------------------
(* Claims on the lifecycle and the QueryServer *)

\* C2: once stop() has returned, every task start() launched has exited or
\* can still take a step towards its exit; none is stuck for good. (A
\* handler at recv steps exactly when HdrHandle or HdrHandleNoStatus can:
\* HdrHandleHdr has the guard of HdrHandleNoStatus.)
C2_AllCancelled ==
    lastOp = "stop" =>
        \A h \in 1..nStarts :
            /\ \/ hdrPc[h] \in {"done", "failed"}
               \/ ENABLED (HdrInit(h) \/ HdrCheck(h) \/ HdrTimeout(h) \/ HdrAccept(h))
               \/ ENABLED (HdrHandle(h) \/ HdrHandleNoStatus(h))
            /\ statPc[h] = "done" \/ ENABLED StatStep(h)

\* C3: after stop(), status_task and power_task are None; no task handle has
\* its stop() called more than once; and a stop() that follows a stop()
\* changes nothing of the facade.
C3_StopIdempotent ==
    /\ [](lastOp = "stop" => status_task = 0 /\ power_task = 0)
    /\ [](\A t \in Tasks : stopCalls[t] <= 1)
    /\ [][(lastOp = "stop" /\ nStops' = nStops + 1)
            => UNCHANGED <<ev_quit, status_task, power_task, stopCalls>>]_vars

\* stop() was called twice in a row after a start().
C3_Witness ==
    /\ lastOp = "stop" /\ prevOp = "stop"
    /\ nStarts = 1 /\ stopCalls[1] = 1 /\ status_task = 0

C5_AlwaysResponds ==
    conn.state = "closed" => conn.sendall # <<>>

\* C6: when localFunc raised, sendall is called with the serialization of an
\* empty header before the connection is closed.
C6_EmptyHeaderOnError ==
    (conn.state = "closed" /\ conn.raised) => conn.sendall = tostring(EmptyHeader)

\* A request with a non-numeric itime was answered with the empty header.
C6_Witness ==
    /\ conn.state = "closed" /\ conn.raised /\ conn.sent
    /\ conn.req = <<"hdr", "9999", "1", "abc">>

\* C7: a HeaderTask that has entered its loop leaves it only for the normal
\* exit, and only with ev_quit set, whatever the requests did.
C7_LoopSurvives ==
    \A h \in Tasks :
        \/ hdrPc[h] \in {"none", "init", "failed", "check", "select", "recv"}
        \/ hdrPc[h] = "done" /\ ev_quit

\* The first request failed, and a later connection was accepted and
\* answered by the same loop, with no stop requested.
C7_Witness ==
    /\ failedAt = 1 /\ connNo = 2
    /\ conn.state = "closed" /\ conn.sent /\ conn.task = 1
    /\ ~ev_quit

\* The value of the card with the given key in a serialized header.
SentValue(bytes, key) ==
    bytes[CHOOSE i \in 1..Len(bytes) : bytes[i][1] = "card" /\ bytes[i][2] = key][3]

\* v is the number n (n in thousandths).
IsNumber(v, n) == (v[1] = "int" /\ v[2] * 1000 = n) \/ (v[1] = "float" /\ v[2] = n)

\* C16: an hdr request whose fourth argument is False is answered with the
\* short form: the fixed fields and nothing else.
C16_ShortOnRequest ==
    (/\ conn.state = "closed" /\ ~conn.raised /\ conn.sent
     /\ Len(conn.req) = 5 /\ conn.req[1] = "hdr" /\ conn.req[5] = "False")
    => [i \in 1..(Len(conn.sendall) - 1) |-> conn.sendall[i][2]] = FixedKeys

\* C17: the answer to "hdr 9999 1 4.5" has FRAMEID equal to the number 9999
\* and EXPTIME equal to the number 4.5.
C17_FrameidExptime ==
    (/\ conn.state = "closed" /\ ~conn.raised /\ conn.sent
     /\ conn.req = <<"hdr", "9999", "1", "4.5">>)
    => /\ IsNumber(SentValue(conn.sendall, "FRAMEID"), 9999000)
       /\ IsNumber(SentValue(conn.sendall, "EXPTIME"), 4500)

\* PowerSpec: start(), stop() and power_off() in any order, with the periodic
\* status task.
PowerNext ==
    \/ Start
    \/ Stop
    \/ PowerOff
    \/ \E t \in Tasks : StatCheck(t)
    \/ \E t \in Tasks : StatPut(t)

PowerSpec == Init /\ [][PowerNext]_vars

\* C19: every power_off() makes exactly one stop() call and then exactly one
\* ocs.shutdown call, which is made with the stop() done and no task handle
\* registered; and nothing else signals the shutdown.
C19_StopThenShutdown ==
    /\ [](Len(shutdowns) = nPowerOffs)
    /\ [](\A i \in 1..Len(shutdowns) :
            shutdowns[i].status_task = 0 /\ shutdowns[i].power_task = 0)
    /\ [][nPowerOffs' # nPowerOffs =>
            /\ nPowerOffs' = nPowerOffs + 1
            /\ nStops' = nStops + 1
            /\ shutdowns' = Append(shutdowns, shutdowns'[Len(shutdowns')])
            /\ shutdowns'[Len(shutdowns')].stops = nStops'
            /\ status_task' = 0 /\ power_task' = 0]_vars

\* power_off() was called with the tasks of a start() running.
C19_Witness ==
    /\ lastOp = "power_off" /\ prevOp = "start"
    /\ nPowerOffs = 1 /\ Len(shutdowns) = 1
    /\ shutdowns[1].stops = 1 /\ stopCalls[1] = 1 /\ ev_quit

\* The commands that report on a sub-tag, and the setvals calls that carry a
\* timestamp.
Monitorable == {"sleep", "grism", "shutter", "filter", "ramp"}
Stamps(w) == w.keys \cap {"task_start", "task_end"}

\* C20: the setvals calls of a monitorable command begin with the one
\* subpath write on the original tag; every later one is on the sub-tag
\* "<tag>.1"; a task_end is written only after a task_start, and no
\* timestamp is written after it; a command that wrote task_start and
\* returned has written task_end.
C20_SubTagProtocol ==
    (dispatchIn.name \in Monitorable /\ LastWrites # <<>>) =>
        /\ LastWrites[1] = SetSubpath(dispatchIn.tag)
        /\ \A i \in 2..Len(LastWrites) :
              /\ LastWrites[i].on = SubTag(dispatchIn.tag)
              /\ "subpath" \notin LastWrites[i].keys
        /\ \A i \in 1..Len(LastWrites) :
              "task_end" \in LastWrites[i].keys =>
                  /\ \E j \in 1..(i - 1) : "task_start" \in LastWrites[j].keys
                  /\ \A j \in (i + 1)..Len(LastWrites) : Stamps(LastWrites[j]) = {}
        /\ (/\ dispatchRes = "returned"
            /\ \E i \in 1..Len(LastWrites) : "task_start" \in LastWrites[i].keys)
           => \E i \in 1..Len(LastWrites) : "task_end" \in LastWrites[i].keys

\* A sleep of 2.5 s returned: its two loop reports lie between task_start and
\* task_end.
C20_Witness ==
    /\ dispatchIn.name = "sleep" /\ dispatchRes = "returned"
    /\ Len(LastWrites) = 6
    /\ "task_end" \in LastWrites[6].keys

-----------------------------------------------------------------------------
(* RaceSpec: return_new_header called from two threads *)
(* Both callers share self.statusDictTel and self.statusDictAO. self.lock is *)
(* created at line 242 and acquired nowhere, so the steps of the two calls   *)
(* interleave freely.                                                        *)

\* datetime.utcnow() of the calls.
RaceNow == MsPerDay + 35999500

\* The arguments each caller passes: localCmd for "hdr 9999 1 4.5" (line 270)
\* and fits_file's return_new_header(frame_cnt, 'blank', 0.0) (line 640).
CallFrameid(t) == IF t = "query" THEN StrV("9999") ELSE IntV(7)
CallItime(t)   == IF t = "query" THEN StrV("4.5") ELSE FloatV(0)

\* Lines 455-458 (and 516-519): one iteration of a table loop.
table_step(hdr, header, statusDict, i) ==
    IF header[i][1] = "NA"
    THEN Return(HdrSet(hdr, header[i][2], header[i][4], header[i][5]))
    ELSE IF header[i][1] \notin DOMAIN statusDict THEN Raise("KeyError", header[i][1])
    ELSE Return(HdrSet(hdr, header[i][2], statusDict[header[i][1]], header[i][5]))

\* Line 365: the call begins; src is what the status source holds.
RnhCall(t) ==
    /\ rnh[t].pc \in {"idle", "done"}
    /\ \E src \in Snapshots :
          rnh' = [rnh EXCEPT ![t] = [NoCall EXCEPT !.pc = "refT", !.src = src,
                                                   !.pending = DOMAIN statusDictTel]]
    /\ UNCHANGED <<lifeVars, taskVars, connVars, putVars, tableVars, dictVars, cmdVars,
                   buildIn, buildRes, heap, built>>

\* Line 369: requestOCSstatus(self.statusDictTel) fills the dictionary in
\* place, all of its keys at once or some of them at a time.
RnhRefreshTel(t) ==
    /\ rnh[t].pc = "refT"
    /\ \E K \in SUBSET rnh[t].pending :
          /\ K # {} \/ rnh[t].pending = {}
          /\ statusDictTel' = [a \in DOMAIN statusDictTel |->
                                  IF a \in K THEN rnh[t].src[a] ELSE statusDictTel[a]]
          /\ rnh' = [rnh EXCEPT ![t] =
                        IF K = rnh[t].pending
                        THEN [@ EXCEPT !.pc = "refA", !.pending = DOMAIN statusDictAO]
                        ELSE [@ EXCEPT !.pending = @ \ K]]
    /\ UNCHANGED <<lifeVars, taskVars, connVars, putVars, tableVars, statusDictAO, cmdVars,
                   buildIn, buildRes, heap, built>>

\* Lines 370-372 (ao_stat is 1, line 230), then lines 375 and 384-448: float(itime),
\* the fresh header, its fixed fields and OBJECT.
RnhRefreshAO(t) ==
    /\ rnh[t].pc = "refA"
    /\ \E K \in SUBSET rnh[t].pending :
          /\ K # {} \/ rnh[t].pending = {}
          /\ statusDictAO' = [a \in DOMAIN statusDictAO |->
                                 IF a \in K THEN rnh[t].src[a] ELSE statusDictAO[a]]
          /\ rnh' = [rnh EXCEPT ![t] =
                        IF K = rnh[t].pending
                        THEN [@ EXCEPT !.pc = "loopT", !.pending = {}, !.i = 1,
                                       !.hdr = HdrSet(fixed_fields(CallFrameid(t),
                                                          PyFloat(CallItime(t)).val, RaceNow),
                                                      "OBJECT", StrV("planetX"),
                                                      "Target description")]
                        ELSE [@ EXCEPT !.pending = @ \ K]]
    /\ UNCHANGED <<lifeVars, taskVars, connVars, putVars, tableVars, statusDictTel, cmdVars,
                   buildIn, buildRes, heap, built>>

\* Lines 454-458: one iteration of the telescope loop, or its end.
RnhTelLoop(t) ==
    /\ rnh[t].pc = "loopT"
    /\ LET c == rnh[t]
           r == table_step(c.hdr, tel_header, statusDictTel, c.i)
       IN  rnh' = [rnh EXCEPT ![t] =
                      IF c.i > Len(tel_header) THEN [c EXCEPT !.pc = "wcs"]
                      ELSE IF Returned(r) THEN [c EXCEPT !.hdr = r.val, !.i = c.i + 1]
                      ELSE [c EXCEPT !.pc = "done", !.res = r]]
    /\ UNCHANGED <<lifeVars, taskVars, connVars, putVars, tableVars, dictVars, cmdVars,
                   buildIn, buildRes, heap, built>>

\* Lines 461-472 and 510-512.
RnhWcs(t) ==
    /\ rnh[t].pc = "wcs"
    /\ LET c == rnh[t]
           w == wcs(statusDictTel, statusDictAO)
       IN  rnh' = [rnh EXCEPT ![t] =
                      IF Returned(w)
                      THEN [c EXCEPT !.pc = "loopA", !.i = 1, !.hdr = ao_comments(c.hdr)]
                      ELSE [c EXCEPT !.pc = "done", !.res = w]]
    /\ UNCHANGED <<lifeVars, taskVars, connVars, putVars, tableVars, dictVars, cmdVars,
                   buildIn, buildRes, heap, built>>

\* Lines 515-521 and 379: one iteration of the AO loop, or the return.
RnhAoLoop(t) ==
    /\ rnh[t].pc = "loopA"
    /\ LET c == rnh[t]
           r == table_step(c.hdr, ao_header, statusDictAO, c.i)
       IN  rnh' = [rnh EXCEPT ![t] =
                      IF c.i > Len(ao_header) THEN [c EXCEPT !.pc = "done", !.res = Return(c.hdr)]
                      ELSE IF Returned(r) THEN [c EXCEPT !.hdr = r.val, !.i = c.i + 1]
                      ELSE [c EXCEPT !.pc = "done", !.res = r]]
    /\ UNCHANGED <<lifeVars, taskVars, connVars, putVars, tableVars, dictVars, cmdVars,
                   buildIn, buildRes, heap, built>>

RaceInit ==
    /\ LifeInit /\ TaskInit /\ ConnInit /\ PutInit /\ TableInit /\ BuildInit /\ CmdInit

RaceNext ==
    \E t \in Callers :
        \/ RnhCall(t)
        \/ RnhRefreshTel(t)
        \/ RnhRefreshAO(t)
        \/ RnhTelLoop(t)
        \/ RnhWcs(t)
        \/ RnhAoLoop(t)

RaceSpec == RaceInit /\ [][RaceNext]_vars

\* C21: a header that return_new_header returns carries, for each status
\* dictionary, the values of one refresh: the values of a table's aliases
\* all come from one state of the status source, never some from one
\* refresh and some from another.
C21_RefreshGuarded ==
    \A t \in Callers :
        (rnh[t].pc = "done" /\ Returned(rnh[t].res)) =>
            /\ \E s \in Snapshots :
                  \A i \in 1..Len(tel_header) :
                      tel_header[i][1] # "NA" =>
                          HdrValue(rnh[t].res.val, tel_header[i][2]) = s[tel_header[i][1]]
            /\ \E s \in Snapshots :
                  \A i \in 1..Len(ao_header) :
                      ao_header[i][1] # "NA" =>
                          HdrValue(rnh[t].res.val, ao_header[i][2]) = s[ao_header[i][1]]

-----------------------------------------------------------------------------
(* FrameSpec: what the header-building calls read and write *)

\* A header object that already exists is handed out again.
new_header_reused(h) == IF h = <<>> THEN 1 ELSE Len(h)

\* Line 384: hdr = pyfits.Header() makes a new object, local to the call.
new_header(h) == Len(h) + 1

\* The cards the object made at line 384 holds when the call ends; a call
\* that raises leaves its object unreachable.
Built(r) == IF Returned(r) THEN (IF r.val[1] = "Header" THEN r.val[2] ELSE r.val) ELSE <<>>

Store(h, o, cards) == IF o > Len(h) THEN Append(h, cards) ELSE [h EXCEPT ![o] = cards]

Call(op, o, r) == [op |-> op, obj |-> o, res |-> r]

FrameArgs ==
    [called : {TRUE}, frameid : {IntV(9999)}, itime : {FloatV(4500), StrV("abc")},
     utc_start : Nows, fullHeader : {PyTrue, PyFalse}]

\* A direct call of fetch_header.
FrameFetch(a) ==
    /\ Len(built) < MaxBuilds
    /\ LET o == new_header(heap)
           r == fetch_header(tel_header, statusDictTel, ao_header, statusDictAO,
                             a.frameid, a.itime, StrV("planetX"), a.utc_start, a.fullHeader)
       IN  /\ heap' = Store(heap, o, Built(r))
           /\ built' = Append(built, Call("fetch_header", o, r))
           /\ buildIn' = a
           /\ buildRes' = r
    /\ UNCHANGED <<lifeVars, taskVars, connVars, putVars, tableVars, dictVars, cmdVars, rnh>>

\* Lines 365-379 in one piece: both refreshes, then the build.
FrameReturnNew(cmdargs, src, now) ==
    /\ Len(built) < MaxBuilds
    /\ LET dt == requestOCSstatus(statusDictTel, src)
           da == requestOCSstatus(statusDictAO, src)
           o  == new_header(heap)
           r  == return_new_header(tel_header, dt, ao_header, da, cmdargs, now)
       IN  /\ statusDictTel' = dt
           /\ statusDictAO' = da
           /\ heap' = Store(heap, o, Built(r))
           /\ built' = Append(built, Call("return_new_header", o, r))
    /\ UNCHANGED <<lifeVars, taskVars, connVars, putVars, tableVars, cmdVars, rnh,
                   buildIn, buildRes>>

\* Lines 349-363: both refreshes, the build with the fixed arguments of line
\* 359, and the file written from it (an exception of the build ends the
\* call before the file is written).
FrameUpdateStat(src, now) ==
    /\ Len(built) < MaxBuilds
    /\ LET dt == requestOCSstatus(statusDictTel, src)
           da == requestOCSstatus(statusDictAO, src)
           o  == new_header(heap)
           r  == fetch_header(tel_header, dt, ao_header, da, IntV(9999), FloatV(4500),
                              StrV("planetX"), now, PyTrue)
       IN  /\ statusDictTel' = dt
           /\ statusDictAO' = da
           /\ heap' = Store(heap, o, Built(r))
           /\ built' = Append(built, Call("update_header_stat", o, r))
    /\ UNCHANGED <<lifeVars, taskVars, connVars, putVars, tableVars, cmdVars, rnh,
                   buildIn, buildRes>>

\* The dictionaries hold their defaults (lines 225, 229) or what an earlier
\* refresh left in them.
FrameInit ==
    /\ LifeInit /\ TaskInit /\ ConnInit /\ PutInit /\ BuildInit /\ CmdInit
    /\ LoadInit
    /\ tel_header \in TelTables
    /\ ao_header \in AoTables
    /\ \/ /\ statusDictTel = init_stat_dict(tel_header)
          /\ statusDictAO = init_stat_dict(ao_header)
       \/ \E src \in Snapshots :
             /\ statusDictTel = requestOCSstatus(init_stat_dict(tel_header), src)
             /\ statusDictAO = requestOCSstatus(init_stat_dict(ao_header), src)

FrameNext ==
    \/ \E a \in FrameArgs : FrameFetch(a)
    \/ \E c \in {<<"9999", "1", "4.5">>, <<"9999", "1", "4.5", "False">>},
          src \in Snapshots, now \in Nows : FrameReturnNew(c, src, now)
    \/ \E src \in Snapshots, now \in Nows : FrameUpdateStat(src, now)

FrameSpec == FrameInit /\ [][FrameNext]_vars

\* C22: a fetch_header call leaves both definition tables and both status
\* dictionaries as they were; the tables never change; the dictionaries
\* change only in return_new_header and update_header_stat, the calls that
\* refresh them; and every call builds its header in an object of its own,
\* so a header that was returned stays as it was returned whatever is built
\* afterwards.
C22_FetchOnlyReads ==
    /\ [][(built' # built /\ built'[Len(built')].op = "fetch_header")
              => UNCHANGED <<tel_header, ao_header, statusDictTel, statusDictAO>>]_vars
    /\ [][UNCHANGED <<tel_header, ao_header>>]_vars
    /\ [][(statusDictTel' # statusDictTel \/ statusDictAO' # statusDictAO)
              => /\ built' # built
                 /\ built'[Len(built')].op \in {"return_new_header", "update_header_stat"}]_vars
    /\ [](\A i, j \in 1..Len(built) : i # j => built[i].obj # built[j].obj)
    /\ [](\A i \in 1..Len(built) :
              Returned(built[i].res) => heap[built[i].obj] = Built(built[i].res))

\* Two fetch_header calls returned different full headers, with the cards of
\* both tables.
C22_Witness ==
    /\ Len(built) >= 2
    /\ \E i, j \in 1..Len(built) :
          /\ i < j
          /\ buildIn.fullHeader = PyTrue
          /\ Len(built[i].res.val) > Len(FixedKeys) /\ Len(built[j].res.val) > Len(FixedKeys)
          /\ built[i].op = "fetch_header" /\ built[j].op = "fetch_header"
          /\ Returned(built[i].res) /\ Returned(built[j].res)
          /\ built[i].res # built[j].res
          /\ heap[built[i].obj] # heap[built[j].obj]

\* C23: once a monitorable command has ended, however it ended, every
\* task_start it wrote on its sub-tag is followed by a task_end or a
\* task_error written on that sub-tag.
C23_StartIsClosed ==
    dispatchIn.name \in Monitorable =>
        \A i \in 1..Len(LastWrites) :
            "task_start" \in LastWrites[i].keys =>
                \E j \in i..Len(LastWrites) :
                    /\ LastWrites[j].on = LastWrites[i].on
                    /\ LastWrites[j].keys \cap {"task_end", "task_error"} # {}

\* The tasks launched by start() whose loops are running.
RunningStat == {t \in Tasks : statPc[t] \in {"loop", "put"}}
RunningHdr  == {h \in Tasks : hdrPc[h] \notin {"none", "init", "done", "failed"}}

\* C24: while no stop has been signalled, at most one status-export task and
\* at most one serving HeaderTask are running, and self.status_task is the
\* handle of every running status-export task.
C24_OneTaskHeld ==
    ~ev_quit =>
        /\ Cardinality(RunningStat) <= 1
        /\ Cardinality(RunningHdr) <= 1
        /\ \A t \in RunningStat : status_task = t

\* C25: a full build whose dictionaries hold every non-"NA" alias of their
\* tables does not fail for want of a status key.
C25_TablesSuffice ==
    (/\ FullBuild
     /\ Missing(tel_header, statusDictTel) = {}
     /\ Missing(ao_header, statusDictAO) = {})
        => buildRes.kind # "KeyError"

-----------------------------------------------------------------------------
(* ExecSpec: execCmd, its subprocess and the two pipes between them *)

\* Line 307: len(ret) > 1000.
LineLimit == 1000

\* What the child writes before it exits: lines to stdout, lines to stderr.
OutPlans == {0, 2, LineLimit + 2, LineLimit + PipeCap + 3}
ErrPlans == {0, PipeCap + 1}

otherVars == <<lifeVars, taskVars, connVars, putVars, tableVars, dictVars, buildVars,
               mode, ocsvals, execLog, dispatchIn, dispatchRes, slp>>

\* Lines 300-304: Popen starts the child with stdout and stderr as pipes (or
\* raises OSError), and ret = [].
ExecCall(o, e, ok) ==
    /\ proc.pc \in {"none", "returned", "raised"}
    /\ proc' = IF ok
               THEN [pc |-> "readline", ret |-> 0, out |-> 0, err |-> 0,
                     outLeft |-> o, errLeft |-> e, child |-> "running"]
               ELSE [NoProc EXCEPT !.pc = "raised"]
    /\ UNCHANGED otherVars

\* Lines 305-315: readline waits for a line or for end of stream (the child
\* has exited); an empty result, or a line read when ret already holds more
\* than 1000, ends the loop.
ExecReadline ==
    /\ proc.pc = "readline"
    /\ proc.out > 0 \/ proc.child = "exited"
    /\ proc' = IF proc.out = 0 THEN [proc EXCEPT !.pc = "stderr"]
               ELSE IF proc.ret > LineLimit
                    THEN [proc EXCEPT !.out = @ - 1, !.pc = "stderr"]
               ELSE [proc EXCEPT !.out = @ - 1, !.ret = @ + 1]
    /\ UNCHANGED otherVars

\* Lines 317-321: stderr.read() takes what the pipe holds and goes on until
\* end of stream; stdout is not read any more.
ExecReadErr ==
    /\ proc.pc = "stderr"
    /\ proc.err > 0 \/ proc.child = "exited"
    /\ proc' = IF proc.err > 0 THEN [proc EXCEPT !.err = 0]
               ELSE [proc EXCEPT !.pc = "returned"]
    /\ UNCHANGED otherVars

\* The child writes a line to a pipe that has room, and exits when it has
\* written everything.
ChildWriteOut ==
    /\ proc.child = "running" /\ proc.outLeft > 0 /\ proc.out < PipeCap
    /\ proc' = [proc EXCEPT !.out = @ + 1, !.outLeft = @ - 1]
    /\ UNCHANGED otherVars

ChildWriteErr ==
    /\ proc.child = "running" /\ proc.errLeft > 0 /\ proc.err < PipeCap
    /\ proc' = [proc EXCEPT !.err = @ + 1, !.errLeft = @ - 1]
    /\ UNCHANGED otherVars

ChildExit ==
    /\ proc.child = "running" /\ proc.outLeft = 0 /\ proc.errLeft = 0
    /\ proc' = [proc EXCEPT !.child = "exited"]
    /\ UNCHANGED otherVars

ExecInit ==
    /\ LifeInit /\ TaskInit /\ ConnInit /\ PutInit /\ TableInit /\ BuildInit /\ CmdInit
    /\ tel_header = TelFull /\ ao_header = AoFull

ExecNext ==
    \/ \E o \in OutPlans, e \in ErrPlans, ok \in BOOLEAN : ExecCall(o, e, ok)
    \/ ExecReadline
    \/ ExecReadErr
    \/ ChildWriteOut
    \/ ChildWriteErr
    \/ ChildExit

ExecSpec == ExecInit /\ [][ExecNext]_vars

\* The parent waits for data or end of stream on the pipe it reads.
ParentWaits ==
    /\ proc.child = "running"
    /\ \/ proc.pc = "readline" /\ proc.out = 0
       \/ proc.pc = "stderr" /\ proc.err = 0
\* The child has something left to write and no room to write it.
ChildWaits ==
    /\ proc.child = "running"
    /\ proc.outLeft > 0 \/ proc.errLeft > 0
    /\ proc.outLeft > 0 => proc.out = PipeCap
    /\ proc.errLeft > 0 => proc.err = PipeCap

\* C26: execCmd collects at most 1001 lines, and it is never the case that
\* the parent waits on one pipe while the child, with output left to write,
\* waits for room in the other: a child that would exit does, and execCmd
\* returns.
C26_ExecReturns ==
    /\ proc.ret <= LineLimit + 1
    /\ ~(ParentWaits /\ ChildWaits)

-----------------------------------------------------------------------------
(* SleepSpec: the sleep command, one loop iteration at a time *)

RECURSIVE Pow2(_)
Pow2(n) == IF n = 0 THEN 1 ELSE 2 * Pow2(n - 1)

\* Below Exact (in thousandths of a second) floats are taken as exact; from
\* Exact on they are 2 s apart, and from 2 * Exact on 4 s apart, as doubles
\* are from 2^53 and 2^54 on.
Exact == Pow2(FloatBits) * 1000
Grid(y) == IF y < Exact THEN 1 ELSE IF y < 2 * Exact THEN 2000 ELSE 4000

\* The float nearest to y, ties to the even one.
FlRound(y) ==
    LET g  == Grid(y)
        lo == (y \div g) * g
        hi == lo + g
    IN  IF y = lo THEN lo
        ELSE IF 2 * (y - lo) < g THEN lo
        ELSE IF 2 * (y - lo) > g THEN hi
        ELSE IF (lo \div g) % 2 = 0 THEN lo ELSE hi

\* The loop entered for every positive itime.
sleep_test_positive(itime) == itime > 0

\* Line 555: int(itime) > 0.
sleep_test(itime) == itime \div 1000 > 0

\* An ocs.setvals call of sleep, with the text of its cmd_str.
SleepWrite(on, keys, text) == [on |-> on, keys |-> keys, sub |-> <<>>, text |-> text]

SleepInputs ==
    {IntV(0), FloatV(500), StrV("1.5"), FloatV(2500), IntV(3), StrV("4.5"),
     FloatV(6500), StrV("7"), StrV("abc"), FloatV(Exact + 2000), FloatV(2 * Exact)}

sleepOther == <<lifeVars, taskVars, connVars, putVars, tableVars, dictVars, buildVars,
                mode, ocsvals, execLog, dispatchIn, dispatchRes, proc>>

\* Lines 532-552: float(sleep_time), the subpath write and task_start.
SleepCall(tag, sleep_time) ==
    /\ slp.pc \in {"none", "done", "raised"}
    /\ LET itime == PyFloat(sleep_time) IN
       slp' = IF ~Returned(itime) THEN [NoSleep EXCEPT !.pc = "raised", !.tag = tag]
              ELSE [pc |-> "loop", tag |-> tag, itime0 |-> itime.val, itime |-> itime.val,
                    iters |-> 0, nap |-> 0,
                    writes |-> <<[SetSubpath(tag) EXCEPT !.sub = SubTag(tag)],
                                 SleepWrite(SubTag(tag), {"task_start", "cmd_str"}, "Sleep")>>]
    /\ UNCHANGED sleepOther

\* Lines 555-559: the test and one iteration.
SleepLoop ==
    /\ slp.pc = "loop"
    /\ sleep_test(slp.itime)
    /\ slp.iters < MaxIters
    /\ slp' = [slp EXCEPT
                  !.writes = Append(@, SleepWrite(SubTag(slp.tag), {"cmd_str"}, "Sleep")),
                  !.nap = IF slp.itime < 1000 THEN slp.itime ELSE 1000,
                  !.itime = FlRound(slp.itime - 1000),
                  !.iters = @ + 1]
    /\ UNCHANGED sleepOther

\* Lines 555 and 561-563: the test fails; 'Awake!' and task_end.
SleepEnd ==
    /\ slp.pc = "loop"
    /\ ~sleep_test(slp.itime)
    /\ slp' = [slp EXCEPT
                  !.pc = "done",
                  !.writes = @ \o <<SleepWrite(SubTag(slp.tag), {"cmd_str"}, "Awake!"),
                                    SleepWrite(SubTag(slp.tag), {"task_end"}, "")>>]
    /\ UNCHANGED sleepOther

SleepInit ==
    /\ LifeInit /\ TaskInit /\ ConnInit /\ PutInit /\ TableInit /\ BuildInit /\ CmdInit
    /\ tel_header = TelFull /\ ao_header = AoFull

SleepNext ==
    \/ \E tag \in CmdTags, st \in SleepInputs : SleepCall(tag, st)
    \/ SleepLoop
    \/ SleepEnd

SleepSpec == SleepInit /\ [][SleepNext]_vars

\* What the claim says of a sleep call whose sleep_time is a number: every
\* iteration takes one off the whole seconds left, so the loop ends after
\* floor(sleep_time) iterations; no iteration blocks more than a second; at
\* the end 'Awake!' and then task_end are written; below one second the body
\* never runs.
SleepAsClaimed ==
    slp.pc \in {"loop", "done"} =>
        /\ slp.itime >= 0 \/ slp.itime0 < 0
        /\ slp.iters + (slp.itime \div 1000) = slp.itime0 \div 1000
        /\ slp.nap <= 1000
        /\ slp.itime0 < 1000 => slp.iters = 0
        /\ Len(slp.writes) >= slp.iters + 2
        /\ \A i \in 3..(slp.iters + 2) :
              slp.writes[i] = SleepWrite(SubTag(slp.tag), {"cmd_str"}, "Sleep")
        /\ slp.pc = "done" =>
              /\ slp.iters = slp.itime0 \div 1000
              /\ Len(slp.writes) = slp.iters + 4
              /\ slp.writes[slp.iters + 3] = SleepWrite(SubTag(slp.tag), {"cmd_str"}, "Awake!")
              /\ slp.writes[slp.iters + 4] = SleepWrite(SubTag(slp.tag), {"task_end"}, "")

\* C27 as stated: for every finite non-negative sleep_time.
C27_SleepTerminates == slp.itime0 >= 0 => SleepAsClaimed

\* C27 amended: for every non-negative sleep_time below the size from which
\* on floats are more than one second apart.
C27_SleepTerminatesExact == (slp.itime0 >= 0 /\ slp.itime0 < Exact) => SleepAsClaimed

\* A sleep of 2.5 s ended after two iterations.
C27_Witness ==
    /\ slp.pc = "done" /\ slp.itime0 = 2500 /\ slp.iters = 2
    /\ Len(slp.writes) = 6

====
